---- MODULE Spec2Model ----
(***************************************************************************)
(* Block breaking and click handling of fmc_vanilla                        *)
(* (src/players/hand.rs).                                                  *)
(*                                                                         *)
(* Units.  Instants and durations are whole milliseconds, progress is in   *)
(* thousandths (1.0 = 1000), hardness is in milliseconds (seconds * 1000), *)
(* distances are whole units.  Instants are only ever subtracted and       *)
(* compared by the code, so stored instants are kept on a clock whose zero *)
(* is the `now` of the latest run of break_blocks.                         *)
(***************************************************************************)
EXTENDS Integers, Sequences, FiniteSets, TLC

\* Option<T> is a sequence of length 0 (None) or 1 (Some(x)).
None == << >>
Some(x) == << x >>
IsSome(o) == o # << >>
Unwrap(o) == o[1]

----------------------------------------------------------------------------
(* Bounds of the model *)

\* most LeftClick messages read by one run of handle_left_clicks
MaxClicks == 2

\* block positions of the world
Positions == {"a", "b"}

\* time between two runs of break_blocks (Instant::now() is monotonic and
\* may return the same instant twice)
TickDurations == {0, 50, 300}

\* distances at which the block raycast can report a hit (all <= RAY_DISTANCE)
BlockDistances == {3}

----------------------------------------------------------------------------
(* Program constants *)

\* hand.rs:112  as_secs_f32() > 0.05
CLICK_INTERVAL == 50
\* hand.rs:245  as_secs_f32() > 0.5
TIMEOUT == 500
\* hand.rs:142  progress >= 1.0
ONE == 1000
\* hand.rs:425, 478  raycast_to_block(&camera_transform, 5.0)
RAY_DISTANCE == 5
\* f32 division by a hardness of 0.0 yields +inf
INFINITY == 1000000

----------------------------------------------------------------------------
(* Block and item configuration read through Blocks::get() and Res<Items> *)

BlockIds == {"air", "bedrock", "stone", "flower", "fire", "chest"}

\* block_config.hardness : Option<f32>
Hardness(block_id) ==
    CASE block_id = "stone"  -> Some(250)
      [] block_id = "flower" -> Some(0)
      [] block_id = "fire"   -> Some(0)
      [] OTHER               -> None

\* item_config.tool : Option<Tool {name, efficiency}>
ToolConfig(item_id) ==
    IF item_id = "pickaxe" THEN Some([name |-> "pickaxe", efficiency |-> 2])
    ELSE None

\* block_config.drop(tool name) : Option<(ItemId, count)>
Drop(block_id, tool_name) ==
    CASE block_id = "stone" /\ tool_name = Some("pickaxe") -> Some(<<"cobblestone", 1>>)
      [] block_id = "flower" -> Some(<<"flower", 1>>)
      [] OTHER -> None

\* block_config.replaceable
Replaceable(block_id) == block_id \in {"air", "fire"}

\* block_config.hitbox.is_some()
HasHitbox(block_id) == block_id \in {"flower", "fire"}

\* block types that differ in nothing but their placement configuration:
\* the k-th has the flags that are the binary digits of k - 1
OrientedBlocks ==
    << "oriented_00", "oriented_01", "oriented_02", "oriented_03",
       "oriented_04", "oriented_05", "oriented_06", "oriented_07",
       "oriented_08", "oriented_09", "oriented_10", "oriented_11",
       "oriented_12", "oriented_13", "oriented_14", "oriented_15",
       "oriented_16", "oriented_17", "oriented_18", "oriented_19",
       "oriented_20", "oriented_21", "oriented_22", "oriented_23",
       "oriented_24", "oriented_25", "oriented_26", "oriented_27",
       "oriented_28", "oriented_29", "oriented_30", "oriented_31" >>

OrientedBlockIds == {OrientedBlocks[i] : i \in DOMAIN OrientedBlocks}

\* the digit of weight w of k
Flag(k, w) == (k \div w) % 2 = 1

\* block_config.placement
Placement(block_id) ==
    IF block_id \in OrientedBlockIds
    THEN LET k == (CHOOSE i \in DOMAIN OrientedBlocks : OrientedBlocks[i] = block_id) - 1
         IN [rotatable |-> Flag(k, 16), side_transform |-> Flag(k, 8),
             ceiling |-> Flag(k, 4), floor |-> Flag(k, 2), sides |-> Flag(k, 1)]
    ELSE [rotatable |-> FALSE, side_transform |-> FALSE, ceiling |-> FALSE,
          floor |-> FALSE, sides |-> FALSE]

\* item_config.block : Option<BlockId>
ItemBlock(item_id) ==
    IF item_id = "flower" \/ item_id \in OrientedBlockIds THEN Some(item_id) ELSE None

\* usable_items.get(&item_id).is_some()
Usable(item_id) == item_id = "bucket"

----------------------------------------------------------------------------
(* Positions: b is the position on top of a; every other neighbour of the  *)
(* two lies in a chunk that is not loaded                                  *)

\* block_face.shift_position(block_pos)
Shift(block_face, block_pos) ==
    IF block_face = "Top" /\ block_pos = "a" THEN "b"
    ELSE IF block_face = "Bottom" /\ block_pos = "b" THEN "a"
    ELSE "unloaded"

\* world_map.get_block(position) : Option<BlockId>
GetBlock(w, position) == IF position \in DOMAIN w THEN Some(w[position]) ELSE None

----------------------------------------------------------------------------
(* Players *)

\* players whose PlayerBundle has been inserted
Players == {"alice", "bob"}
\* a connected player entity whose bundle add_players has not inserted yet
NewPlayers == {"carol"}

\* an ItemStack: the item and its size; size 0 is the empty stack
EmptyStack == [item |-> "", size |-> 0]
\* ItemStack::item()
StackItem(stack) == IF stack.size = 0 THEN None ELSE Some(stack.item)

VARIABLES
    world,                  \* WorldMap: block id of every position
    inventory,              \* inventory[equipped_item.0] of every player
    being_broken,           \* Local<HashMap<IVec3, BreakingBlock>>
    models,                 \* entities spawned by break_blocks that are alive
    clicks,                 \* LeftClick messages of this tick
    right_clicks,           \* RightClick messages of this tick
    hand_interactions,      \* HandInteractions::player_entities of every sink
    item_uses,              \* ItemUses pushed this tick
    targets,                \* what each RightClick of this tick resolved to
    block_breaking_events,  \* Events<BlockBreakingEvent> of this tick
    block_updates,          \* Events<BlockUpdate> sent this tick
    ground_items,           \* GroundItemBundles spawned this tick
    elapsed,                \* time between the last two runs of break_blocks
    before,                 \* being_broken and models when break_blocks started
    phase,                  \* position in the Update schedule
    panicked,               \* an unwrap() failed
    health,                 \* the Health component of every player
    visible_hearts,         \* the heart icons a player's interface shows
    interface_update,       \* the last update change_health sent
    read_log                \* per sink: pushes since the last read, last read

\* the variables of the hand systems
handVars == <<world, inventory, being_broken, models, clicks, right_clicks,
              hand_interactions, item_uses, targets, block_breaking_events,
              block_updates, ground_items, elapsed, before, phase, panicked>>

vars == <<world, inventory, being_broken, models, clicks, right_clicks,
          hand_interactions, item_uses, targets, block_breaking_events,
          block_updates, ground_items, elapsed, before, phase, panicked,
          health, visible_hearts, interface_update, read_log>>


----------------------------------------------------------------------------
(* LeftClick messages and what the ray of each finds *)

Faces == {"Top", "Bottom", "Front", "Back", "Left", "Right"}

\* the entities with a Model that the model map can hold for the 27 chunks
\* around the player, in the order the chunk loops of the click handlers
\* meet them: the block entities of the two positions, two free objects
ModelEntities == <<"model_a", "model_b", "boat", "item">>

\* Option<&BlockPosition> of a model entity
BlockPositionOf(model_entity) ==
    CASE model_entity = "model_a" -> Some("a")
      [] model_entity = "model_b" -> Some("b")
      [] OTHER -> None

\* the blocks that come with a block entity
EntityBlocks == {"flower", "fire", "chest"}

\* the entity is in the model map: a free object, or the block entity of a
\* position that holds a block with a block entity
Exists(w, model_entity) ==
    BlockPositionOf(model_entity) = None
        \/ w[Unwrap(BlockPositionOf(model_entity))] \in EntityBlocks

\* model_map.get_entities(..) over the 27 chunks
ModelsIn(w) == LET InMap(e) == Exists(w, e) IN SelectSeq(ModelEntities, InMap)

\* the entity has an Aabb: model_query.get(..) of handle_right_clicks is Ok
HasAabb(model_entity) == model_entity \in {"boat", "item"}

\* hand_interaction_query.get_mut(entity) is Ok
HasHandInteractions(w, entity) ==
    \/ entity = "boat"
    \/ /\ BlockPositionOf(entity) # None
       /\ w[Unwrap(BlockPositionOf(entity))] = "chest"

\* chunk.block_entities.get(&block_index)
BlockEntityAt(w, block_pos) ==
    IF w[block_pos] \in EntityBlocks
    THEN Some(CHOOSE e \in {"model_a", "model_b"} : BlockPositionOf(e) = Some(block_pos))
    ELSE None

\* what raycast_to_block can return in world w: a block that is not air,
\* its id, the face and the distance
BlockHits(w, faces, distances) ==
    { [position |-> p, block_id |-> w[p], face |-> f, distance |-> d] :
        p \in {q \in Positions : w[q] # "air"}, f \in faces, d \in distances }

\* a ray that meets no model entity
NoModelDistance == [e \in {ModelEntities[i] : i \in DOMAIN ModelEntities} |-> None]

\* LeftClick messages of players whose ray meets a block and no model entity
BlockClicks(w) ==
    { [player_entity |-> pl, block_hit |-> Some(h), model_distance |-> NoModelDistance] :
        pl \in Players, h \in BlockHits(w, {"Top"}, {2}) }

\* sequences over S of length at most n
RECURSIVE SeqsUpTo(_, _)
SeqsUpTo(S, n) ==
    IF n = 0 THEN { << >> }
    ELSE LET shorter == SeqsUpTo(S, n - 1)
         IN shorter \cup { Append(q, x) : q \in {r \in shorter : Len(r) = n - 1}, x \in S }

----------------------------------------------------------------------------
(* handle_left_clicks *)

\* hand.rs:414  distance < closest_distance
Closer(distance, closest_distance) == distance < closest_distance

\* mutant: the hitbox of the block's configuration is not asked for
RECURSIVE ScanModelsLeftAnyBlock(_, _, _, _)
ScanModelsLeftAnyBlock(i, click, w, model_hit) ==
    IF i > Len(ModelsIn(w)) THEN model_hit
    ELSE LET model_entity == ModelsIn(w)[i]
             maybe_block  == BlockPositionOf(model_entity)
             found ==
                IF maybe_block = None THEN model_hit
                ELSE LET block_position == Unwrap(maybe_block)
                         block_id == w[block_position]
                     IN IF click.model_distance[model_entity] = None THEN model_hit
                        ELSE LET distance == Unwrap(click.model_distance[model_entity])
                                 hit == Some([position |-> block_position,
                                              block_id |-> block_id,
                                              distance |-> distance])
                             IN IF model_hit = None THEN hit
                                ELSE IF Closer(distance, Unwrap(model_hit).distance) THEN hit
                                ELSE model_hit
         IN ScanModelsLeftAnyBlock(i + 1, click, w, found)

\* hand.rs:388-420, the body of the loop over the model entities
RECURSIVE ScanModelsLeft(_, _, _, _)
ScanModelsLeft(i, click, w, model_hit) ==
    IF i > Len(ModelsIn(w)) THEN model_hit
    ELSE LET model_entity == ModelsIn(w)[i]
             maybe_block  == BlockPositionOf(model_entity)
             found ==
                IF maybe_block = None THEN model_hit
                ELSE LET block_position == Unwrap(maybe_block)
                         block_id == w[block_position]
                     IN IF ~HasHitbox(block_id) THEN model_hit
                        ELSE IF click.model_distance[model_entity] = None THEN model_hit
                        ELSE LET distance == Unwrap(click.model_distance[model_entity])
                                 hit == Some([position |-> block_position,
                                              block_id |-> block_id,
                                              distance |-> distance])
                             IN IF model_hit = None THEN hit
                                ELSE IF Closer(distance, Unwrap(model_hit).distance) THEN hit
                                ELSE model_hit
         IN ScanModelsLeft(i + 1, click, w, found)

\* mutant: the comparison of hand.rs:431 reversed
ModelBehindBlock(model_distance, block_distance) == model_distance > block_distance

\* hand.rs:431  model_distance < block_distance
ModelBeforeBlock(model_distance, block_distance) == model_distance < block_distance

\* the arm of hand.rs:427-443 that a click takes: which of the two hits
\* gives the event its position and block id, and the distance of that hit
Chosen(button, kind, hit) ==
    [button |-> button, kind |-> kind, position |-> hit.position,
     block_id |-> hit.block_id, distance |-> hit.distance]

\* the click took the `continue` arm
NotChosen(button) ==
    [button |-> button, kind |-> "none", position |-> "", block_id |-> "",
     distance |-> 0]

\* hand.rs:427-443: the hit that gives the event its position and block id
LeftTarget(block_hit, model_hit) ==
    IF block_hit # None /\ model_hit # None THEN
        IF ModelBeforeBlock(Unwrap(model_hit).distance, Unwrap(block_hit).distance)
        THEN Chosen("left", "object", Unwrap(model_hit))
        ELSE Chosen("left", "block", Unwrap(block_hit))
    ELSE IF model_hit # None THEN Chosen("left", "object", Unwrap(model_hit))
    ELSE IF block_hit # None THEN Chosen("left", "block", Unwrap(block_hit))
    ELSE NotChosen("left")

\* hand.rs:364-450: the events sent for the clicks from the i-th on, the
\* arm each click took, and whether player_query.get(..).unwrap() panicked
RECURSIVE LeftClickEvents(_, _, _, _)
LeftClickEvents(cs, i, w, out) ==
    IF i > Len(cs) THEN out
    ELSE IF cs[i].player_entity \notin Players THEN [out EXCEPT !.panicked = TRUE]
    ELSE LET target == LeftTarget(cs[i].block_hit, ScanModelsLeft(1, cs[i], w, None))
             logged == [out EXCEPT !.targets = Append(@, target)]
         IN IF target.kind = "none" THEN LeftClickEvents(cs, i + 1, w, logged)
            ELSE LeftClickEvents(cs, i + 1, w,
                    [logged EXCEPT !.events =
                        Append(@, [player_entity  |-> cs[i].player_entity,
                                   block_position |-> target.position,
                                   block_id       |-> target.block_id])])

HandleLeftClicks(cs) ==
    /\ phase \in {"clicks", "left"}
    /\ ~panicked
    /\ LET out == LeftClickEvents(cs, 1, world,
                      [events |-> << >>, targets |-> targets, panicked |-> FALSE])
       IN /\ clicks' = cs
          /\ block_breaking_events' = out.events
          /\ targets' = out.targets
          /\ panicked' = out.panicked
    /\ phase' = "break"
    /\ UNCHANGED <<health, visible_hearts, interface_update, read_log>>
    /\ UNCHANGED <<world, inventory, being_broken, models, right_clicks,
                   hand_interactions, item_uses, block_updates,
                   ground_items, elapsed, before>>

----------------------------------------------------------------------------
(* handle_right_clicks.  The schedule orders it neither before nor after   *)
(* handle_left_clicks and break_blocks; here it runs first in the tick.    *)

\* hand.rs:483  f64::MAX, above every distance of the model
F64_MAX == 1000000000

\* mutant: an object at the distance of the block is skipped too
BehindOrAtBlock(block_hit_distance, distance) == block_hit_distance <= distance

\* hand.rs:518  block_hit_distance < distance
BehindBlock(block_hit_distance, distance) == block_hit_distance < distance

\* mutant: the comparison of hand.rs:523 reversed
FartherRight(distance, closest_distance) == distance > closest_distance

\* hand.rs:523  distance < closest_distance
CloserRight(distance, closest_distance) == distance < closest_distance

\* hand.rs:501-529, the body of the loop over the model entities
RECURSIVE ScanModelsRight(_, _, _, _, _)
ScanModelsRight(i, right_click, w, block_hit_distance, model_hit) ==
    IF i > Len(ModelsIn(w)) THEN model_hit
    ELSE LET model_entity == ModelsIn(w)[i]
             found ==
                IF ~HasAabb(model_entity) THEN model_hit
                ELSE IF right_click.model_distance[model_entity] = None THEN model_hit
                ELSE LET distance == Unwrap(right_click.model_distance[model_entity])
                         hit == Some([model_entity |-> model_entity, distance |-> distance])
                     IN IF BehindBlock(block_hit_distance, distance) THEN model_hit
                        ELSE IF model_hit = None THEN hit
                        ELSE IF CloserRight(distance, Unwrap(model_hit).distance) THEN hit
                        ELSE model_hit
         IN ScanModelsRight(i + 1, right_click, w, block_hit_distance, found)

\* mutant: the player is pushed twice
PushTwice(st, entity, player_entity) ==
    [st EXCEPT !.hand_interactions[entity] = Append(Append(@, player_entity), player_entity)]

\* HandInteractions::push on the sink of an entity
Push(st, entity, player_entity) ==
    [st EXCEPT !.hand_interactions[entity] = Append(@, player_entity)]

\* mutant: the stack is left as it is
KeepStack(stack, amount) == stack

\* ItemStack::subtract
Subtract(stack, amount) ==
    IF stack.size <= amount THEN EmptyStack ELSE [stack EXCEPT !.size = @ - amount]

\* BlockState::new(BlockRotation::..)
Rotation(block_rotation) == <<"rotation", block_rotation>>

\* BlockState::new(block_face.to_rotation()), the rotation kept symbolic
ToRotation(block_face) == <<"to_rotation", block_face>>

\* IVec2::max_element
MaxElement(x, z) == IF x >= z THEN x ELSE z

\* mutant: a side transform counts for every face
PlacedBlockStateAnyFace(placement, block_face, distance) ==
    IF placement.rotatable \/ placement.side_transform
    THEN IF (block_face = "Bottom" /\ placement.ceiling)
              \/ (block_face = "Top" /\ placement.floor)
         THEN LET max == MaxElement(distance.x, distance.z)
              IN IF max = distance.x
                 THEN IF distance.x > 0 THEN Some(Rotation("Once"))
                      ELSE Some(Rotation("Thrice"))
                 ELSE IF distance.z > 0 THEN None ELSE Some(Rotation("Twice"))
         ELSE IF (block_face # "Bottom" \/ block_face # "Top") /\ placement.sides
         THEN Some(ToRotation(block_face))
         ELSE None
    ELSE None

\* mutant: a side transform does not count
PlacedBlockStateRotatableOnly(placement, block_face, distance) ==
    IF placement.rotatable
    THEN IF (block_face = "Bottom" /\ placement.ceiling)
              \/ (block_face = "Top" /\ placement.floor)
         THEN LET max == MaxElement(distance.x, distance.z)
              IN IF max = distance.x
                 THEN IF distance.x > 0 THEN Some(Rotation("Once"))
                      ELSE Some(Rotation("Thrice"))
                 ELSE IF distance.z > 0 THEN None ELSE Some(Rotation("Twice"))
         ELSE IF (block_face # "Bottom" \/ block_face # "Top") /\ placement.sides
         THEN Some(ToRotation(block_face))
         ELSE None
    ELSE None

\* hand.rs:595-633: the block state of the placed block; `distance` is
\* player_position.translation().as_ivec3() - block_pos
PlacedBlockState(placement, block_face, distance) ==
    IF placement.rotatable
        \/ (placement.side_transform /\ block_face # "Top" /\ block_face # "Bottom")
    THEN IF (block_face = "Bottom" /\ placement.ceiling)
              \/ (block_face = "Top" /\ placement.floor)
         THEN LET max == MaxElement(distance.x, distance.z)
              IN IF max = distance.x
                 THEN IF distance.x > 0 THEN Some(Rotation("Once"))
                      ELSE Some(Rotation("Thrice"))
                 ELSE IF distance.z > 0 THEN None ELSE Some(Rotation("Twice"))
         ELSE IF (block_face # "Bottom" \/ block_face # "Top") /\ placement.sides
         THEN Some(ToRotation(block_face))
         ELSE None
    ELSE None

\* mutant: the adjacent block is not tested for being replaceable
ReplacedUnchecked(w, block_pos, block_id, block_face) ==
    IF Replaceable(block_id) THEN Some(block_pos)
    ELSE IF GetBlock(w, Shift(block_face, block_pos)) # None
         THEN Some(Shift(block_face, block_pos))
         ELSE None

\* hand.rs:575-584: the position the placed block goes to, or None
ReplacedBlockPosition(w, block_pos, block_id, block_face) ==
    IF Replaceable(block_id) THEN Some(block_pos)
    ELSE LET shifted == GetBlock(w, Shift(block_face, block_pos))
         IN IF shifted # None
            THEN IF ~Replaceable(Unwrap(shifted)) THEN None
                 ELSE Some(Shift(block_face, block_pos))
            ELSE None

\* hand.rs:557-639: the click is no interaction, the equipped item is used
\* and placed
UseAndPlace(st, right_click, w, hit) ==
    LET player_entity == right_click.player_entity
        equipped_item == st.inventory[player_entity]
    IN IF equipped_item.size = 0 THEN st
       ELSE LET item_id == Unwrap(StackItem(equipped_item))
                used == IF Usable(item_id)
                        THEN [st EXCEPT !.item_uses =
                                Append(@, [player_entity |-> player_entity,
                                           block |-> Some(<<hit.block_id, hit.position>>)])]
                        ELSE st
                replaced_block_position ==
                    ReplacedBlockPosition(w, hit.position, hit.block_id, hit.face)
            IN IF replaced_block_position = None THEN used
               ELSE IF ItemBlock(item_id) = None THEN used
               ELSE LET block_id == Unwrap(ItemBlock(item_id))
                    IN [used EXCEPT
                          !.inventory[player_entity] = Subtract(@, 1),
                          !.block_updates =
                              Append(@, [position |-> Unwrap(replaced_block_position),
                                         block_id |-> block_id,
                                         block_state |->
                                             PlacedBlockState(Placement(block_id), hit.face,
                                                              right_click.distance)])]

\* mutant: an object without sink lets the click through to the block behind
ObjectTargetFallsThrough(st, model_entity, right_click, w) ==
    IF HasHandInteractions(w, model_entity)
    THEN Push(st, model_entity, right_click.player_entity)
    ELSE IF right_click.block_hit = None THEN st
    ELSE UseAndPlace(st, right_click, w, Unwrap(right_click.block_hit))

\* hand.rs:534-539  the target is an object: the player is pushed on its sink
\* if it has one, and the click ends there
ObjectTarget(st, model_entity, right_click, w) ==
    IF HasHandInteractions(w, model_entity)
    THEN Push(st, model_entity, right_click.player_entity)
    ELSE st

\* hand.rs:468-640, one RightClick
RightClick(st, right_click, w) ==
    LET block_hit == right_click.block_hit
        block_hit_distance ==
            IF block_hit # None THEN Unwrap(block_hit).distance ELSE F64_MAX
        model_hit == ScanModelsRight(1, right_click, w, block_hit_distance, None)
    IN IF model_hit # None THEN
           LET model_entity == Unwrap(model_hit).model_entity
               logged == [st EXCEPT !.targets =
                            Append(@, [button |-> "right", kind |-> "object",
                                       position |-> "", block_id |-> "",
                                       distance |-> Unwrap(model_hit).distance])]
           IN ObjectTarget(logged, model_entity, right_click, w)
       ELSE IF block_hit = None
       THEN [st EXCEPT !.targets = Append(@, NotChosen("right"))]
       ELSE LET hit == Unwrap(block_hit)
                logged == [st EXCEPT !.targets = Append(@, Chosen("right", "block", hit))]
                block_entity == BlockEntityAt(w, hit.position)
            IN IF block_entity # None /\ HasHandInteractions(w, Unwrap(block_entity))
               THEN Push(logged, Unwrap(block_entity), right_click.player_entity)
               ELSE UseAndPlace(logged, right_click, w, hit)

\* mutant: a click reads a grid that holds the blocks placed by the clicks
\* before it
RECURSIVE RightClicksSeeUpdates(_, _, _, _)
RightClicksSeeUpdates(st, cs, i, w) ==
    IF i > Len(cs) THEN st
    ELSE IF cs[i].player_entity \notin Players THEN [st EXCEPT !.panicked = TRUE]
    ELSE LET next == RightClick(st, cs[i], w)
             At(p) == { j \in DOMAIN next.block_updates : next.block_updates[j].position = p }
             Last(p) == CHOOSE j \in At(p) : \A k \in At(p) : k <= j
             seen == [p \in DOMAIN w |->
                        IF At(p) = {} THEN w[p] ELSE next.block_updates[Last(p)].block_id]
         IN RightClicksSeeUpdates(next, cs, i + 1, seen)

\* hand.rs:468-640, the loop over the RightClick messages
RECURSIVE RightClicks(_, _, _, _)
RightClicks(st, cs, i, w) ==
    IF i > Len(cs) THEN st
    ELSE IF cs[i].player_entity \notin Players THEN [st EXCEPT !.panicked = TRUE]
    ELSE RightClicks(RightClick(st, cs[i], w), cs, i + 1, w)

HandleRightClicks(cs) ==
    /\ phase = "clicks"
    /\ ~panicked
    /\ LET st == RightClicks([inventory |-> inventory,
                              hand_interactions |-> hand_interactions,
                              item_uses |-> item_uses, targets |-> targets,
                              block_updates |-> block_updates, panicked |-> FALSE],
                             cs, 1, world)
       IN /\ inventory' = st.inventory
          /\ hand_interactions' = st.hand_interactions
          /\ item_uses' = st.item_uses
          /\ targets' = st.targets
          /\ block_updates' = st.block_updates
          /\ panicked' = st.panicked
    /\ right_clicks' = cs
    /\ phase' = "left"
    /\ UNCHANGED <<health, visible_hearts, interface_update, read_log>>
    /\ UNCHANGED <<world, being_broken, models, clicks, block_breaking_events,
                   ground_items, elapsed, before>>

----------------------------------------------------------------------------
(* break_blocks *)

\* hand.rs:87-91  the event is a duplicate of one already handled at `now`
IsDuplicate(bb, block_position, now) ==
    block_position \in DOMAIN bb /\ now = bb[block_position].prev_hit

\* hand.rs:96-102  the tool of the equipped item stack
EquippedTool(equipped_item_stack) ==
    IF StackItem(equipped_item_stack) # None
    THEN ToolConfig(Unwrap(StackItem(equipped_item_stack)))
    ELSE None

\* hand.rs:128  tool.map(|t| t.efficiency).unwrap_or(1.0)
Efficiency(tool) == IF tool # None THEN Unwrap(tool).efficiency ELSE 1

\* hand.rs:151, 193  tool.map(|t| t.name.as_str())
ToolName(tool) == IF tool # None THEN Some(Unwrap(tool).name) ELSE None

\* mutant: the interval test with >= for >
ClickIntervalReached(since_prev_hit) == since_prev_hit >= CLICK_INTERVAL

\* hand.rs:112  (now - breaking_block.prev_hit).as_secs_f32() > 0.05
ClickIntervalExceeded(since_prev_hit) == since_prev_hit > CLICK_INTERVAL

\* mutant: the progress of a hit subtracted
ProgressLost(since_prev_hit, hardness, efficiency) ==
    IF hardness = 0 THEN 0 - INFINITY
    ELSE 0 - ((since_prev_hit * ONE) \div hardness) * efficiency

\* hand.rs:126-128  the progress added by one hit, in thousandths
ProgressDelta(since_prev_hit, hardness, efficiency) ==
    IF hardness = 0 THEN INFINITY
    ELSE ((since_prev_hit * ONE) \div hardness) * efficiency

\* mutant: the completion test with > for >=
IsBrokenStrict(progress) == progress > ONE

\* hand.rs:142  progress >= 1.0
IsBroken(progress) == progress >= ONE

\* mutant: the thresholds scanned from low to high
StageLowToHigh(model, prev_progress, progress) ==
    IF prev_progress < 100 /\ progress > 100 THEN [model EXCEPT !.is_visible = TRUE]
    ELSE IF prev_progress < 200 /\ progress > 200 THEN [model EXCEPT !.texture = 2]
    ELSE IF prev_progress < 300 /\ progress > 300 THEN [model EXCEPT !.texture = 3]
    ELSE IF prev_progress < 400 /\ progress > 400 THEN [model EXCEPT !.texture = 4]
    ELSE IF prev_progress < 500 /\ progress > 500 THEN [model EXCEPT !.texture = 5]
    ELSE IF prev_progress < 600 /\ progress > 600 THEN [model EXCEPT !.texture = 6]
    ELSE IF prev_progress < 700 /\ progress > 700 THEN [model EXCEPT !.texture = 7]
    ELSE IF prev_progress < 800 /\ progress > 800 THEN [model EXCEPT !.texture = 8]
    ELSE IF prev_progress < 900 /\ progress > 900 THEN [model EXCEPT !.texture = 9]
    ELSE model

\* hand.rs:165-183  the stage of the breaking model after a progress update
\* that does not break the block
Stage(model, prev_progress, progress) ==
    IF prev_progress < 900 /\ progress > 900 THEN [model EXCEPT !.texture = 9]
    ELSE IF prev_progress < 800 /\ progress > 800 THEN [model EXCEPT !.texture = 8]
    ELSE IF prev_progress < 700 /\ progress > 700 THEN [model EXCEPT !.texture = 7]
    ELSE IF prev_progress < 600 /\ progress > 600 THEN [model EXCEPT !.texture = 6]
    ELSE IF prev_progress < 500 /\ progress > 500 THEN [model EXCEPT !.texture = 5]
    ELSE IF prev_progress < 400 /\ progress > 400 THEN [model EXCEPT !.texture = 4]
    ELSE IF prev_progress < 300 /\ progress > 300 THEN [model EXCEPT !.texture = 3]
    ELSE IF prev_progress < 200 /\ progress > 200 THEN [model EXCEPT !.texture = 2]
    ELSE IF prev_progress < 100 /\ progress > 100 THEN [model EXCEPT !.is_visible = TRUE]
    ELSE model

\* BlockUpdate::Change { position, block_id: blocks.get_id("air"), block_state: None }
AirUpdate(block_position) ==
    [position |-> block_position, block_id |-> "air", block_state |-> None]

\* GroundItemBundle::new(dropped_item_id, .., count, block_position)
GroundItem(drop, block_position) ==
    [item_id |-> drop[1], count |-> drop[2], position |-> block_position]

\* the id commands.spawn() hands out: an entity that is not alive
NewEntity(ms) == CHOOSE e \in 1..(Cardinality(DOMAIN ms) + 1) : e \notin DOMAIN ms

\* hand.rs:219-229  ModelBundle { build_breaking_model(), is_visible: false,
\* Transform::from_translation(block_position) } with the BreakingBlockMarker
BreakingModel(block_position) ==
    [marker |-> TRUE, texture |-> 1, is_visible |-> FALSE, position |-> block_position]
\* hand.rs:212  commands.spawn_empty()
EmptyEntity == [marker |-> FALSE, texture |-> 0, is_visible |-> FALSE, position |-> ""]

\* hand.rs:111-183  a hit on a position that has an entry
HitEntry(st, ev, now, tool, hardness) ==
    LET pos == ev.block_position
        breaking_block == st.being_broken[pos]
        since_prev_hit == now - breaking_block.prev_hit
    IN IF ClickIntervalExceeded(since_prev_hit)
       THEN [st EXCEPT !.being_broken[pos].prev_hit = now]
       ELSE IF ~st.models[breaking_block.model_entity].marker
       THEN [st EXCEPT !.panicked = TRUE]
       ELSE
        LET prev_progress == breaking_block.progress
            progress == prev_progress
                        + ProgressDelta(since_prev_hit, hardness, Efficiency(tool))
            hit == [st EXCEPT !.being_broken[pos].progress = progress,
                              !.being_broken[pos].prev_hit = now]
        IN IF IsBroken(progress)
           THEN LET updated == [hit EXCEPT !.block_updates = Append(@, AirUpdate(pos))]
                    drop == Drop(ev.block_id, ToolName(tool))
                IN IF drop = None THEN updated
                   ELSE [updated EXCEPT
                            !.ground_items = Append(@, GroundItem(Unwrap(drop), pos))]
           ELSE [hit EXCEPT !.models[breaking_block.model_entity] =
                                Stage(@, prev_progress, progress)]

\* mutant: the drop is looked up before the block update is sent
BreakInstantlyDropFirst(st, ev, now, tool) ==
    LET pos == ev.block_position
        drop == Drop(ev.block_id, ToolName(tool))
    IN IF drop = None THEN st
       ELSE LET model_entity == NewEntity(st.models)
            IN [st EXCEPT
                  !.block_updates = Append(@, AirUpdate(pos)),
                  !.ground_items = Append(@, GroundItem(Unwrap(drop), pos)),
                  !.models = (model_entity :> EmptyEntity) @@ @,
                  !.being_broken = (pos :> [model_entity |-> model_entity,
                                            progress |-> ONE,
                                            prev_hit |-> now]) @@ @]

\* hand.rs:184-216  a hit on a block that breaks instantly
BreakInstantly(st, ev, now, tool) ==
    LET pos == ev.block_position
        updated == [st EXCEPT !.block_updates = Append(@, AirUpdate(pos))]
        drop == Drop(ev.block_id, ToolName(tool))
    IN IF drop = None THEN updated
       ELSE LET model_entity == NewEntity(st.models)
            IN [updated EXCEPT
                  !.ground_items = Append(@, GroundItem(Unwrap(drop), pos)),
                  !.models = (model_entity :> EmptyEntity) @@ @,
                  !.being_broken = (pos :> [model_entity |-> model_entity,
                                            progress |-> ONE,
                                            prev_hit |-> now]) @@ @]

\* hand.rs:217-240  the first hit on a block with a hardness above 0
StartBreaking(st, ev, now) ==
    LET model_entity == NewEntity(st.models)
    IN [st EXCEPT
          !.models = (model_entity :> BreakingModel(ev.block_position)) @@ @,
          !.being_broken = (ev.block_position :> [model_entity |-> model_entity,
                                                   progress |-> 0,
                                                   prev_hit |-> now]) @@ @]

\* mutant: a missing hardness is read as hardness 0
BreakEventNoneAsZero(st, ev, now, inv) ==
    IF IsDuplicate(st.being_broken, ev.block_position, now) THEN st
    ELSE IF ev.player_entity \notin Players THEN [st EXCEPT !.panicked = TRUE]
    ELSE LET tool == EquippedTool(inv[ev.player_entity])
             hardness == IF Hardness(ev.block_id) = None THEN 0
                         ELSE Unwrap(Hardness(ev.block_id))
         IN IF ev.block_position \in DOMAIN st.being_broken
                 THEN HitEntry(st, ev, now, tool, hardness)
            ELSE IF hardness = 0 THEN BreakInstantly(st, ev, now, tool)
            ELSE StartBreaking(st, ev, now)

\* hand.rs:85-241  the body of the loop over the events
BreakEvent(st, ev, now, inv) ==
    IF IsDuplicate(st.being_broken, ev.block_position, now) THEN st
    ELSE IF ev.player_entity \notin Players THEN [st EXCEPT !.panicked = TRUE]
    ELSE LET tool == EquippedTool(inv[ev.player_entity])
             hardness == Hardness(ev.block_id)
         IN IF hardness = None THEN st
            ELSE IF ev.block_position \in DOMAIN st.being_broken
                 THEN HitEntry(st, ev, now, tool, Unwrap(hardness))
            ELSE IF Unwrap(hardness) = 0 THEN BreakInstantly(st, ev, now, tool)
            ELSE StartBreaking(st, ev, now)

\* mutant: the events read from the last to the first
RECURSIVE BreakEventsLastFirst(_, _, _, _, _)
BreakEventsLastFirst(st, events, i, now, inv) ==
    IF i > Len(events) \/ st.panicked THEN st
    ELSE BreakEventsLastFirst(BreakEvent(st, events[Len(events) + 1 - i], now, inv),
                              events, i + 1, now, inv)

RECURSIVE BreakEvents(_, _, _, _, _)
BreakEvents(st, events, i, now, inv) ==
    IF i > Len(events) \/ st.panicked THEN st
    ELSE BreakEvents(BreakEvent(st, events[i], now, inv), events, i + 1, now, inv)

\* hand.rs:245  (now - breaking_block.prev_hit).as_secs_f32() > 0.5
TimedOut(since_prev_hit) == since_prev_hit > TIMEOUT

\* mutant: the cleanup without the timeout
RemovedWhenBroken(breaking_block, now) == IsBroken(breaking_block.progress)

\* mutant: the cleanup without the test for broken entries
RemovedWhenTimedOut(breaking_block, now) == TimedOut(now - breaking_block.prev_hit)

\* hand.rs:245-248  remove_timout || remove_broken
Removed(breaking_block, now) ==
    TimedOut(now - breaking_block.prev_hit) \/ IsBroken(breaking_block.progress)

\* mutant: the entries removed without despawning their model entities
RetainNoDespawn(st, now) ==
    LET bb == st.being_broken
        kept == {pos \in DOMAIN bb : ~Removed(bb[pos], now)}
    IN [st EXCEPT !.being_broken = [pos \in kept |-> bb[pos]]]

\* hand.rs:244-254  being_broken.retain(..), despawning the model entities
\* of the removed entries
Retain(st, now) ==
    LET bb == st.being_broken
        kept == {pos \in DOMAIN bb : ~Removed(bb[pos], now)}
        despawned == {bb[pos].model_entity : pos \in (DOMAIN bb) \ kept}
    IN [st EXCEPT !.being_broken = [pos \in kept |-> bb[pos]],
                  !.models = [e \in (DOMAIN st.models) \ despawned |-> st.models[e]]]

\* the stored instants, moved to the clock whose zero is `now`
Rebase(bb, now) ==
    [pos \in DOMAIN bb |-> [bb[pos] EXCEPT !.prev_hit = @ - now]]

\* hand.rs:81-254  one run over the events, then the cleanup
BreakRun(st, events, now, inv) ==
    LET hit == BreakEvents(st, events, 1, now, inv)
    IN IF hit.panicked THEN hit ELSE Retain(hit, now)

\* mutant: break_blocks writes the broken blocks into the grid itself
BreakBlocksWritesGrid(now) ==
    /\ phase = "break"
    /\ ~panicked
    /\ LET st == BreakRun([being_broken |-> being_broken, models |-> models,
                           block_updates |-> block_updates,
                           ground_items |-> ground_items, panicked |-> FALSE],
                          block_breaking_events, now, inventory)
       IN /\ being_broken' = Rebase(st.being_broken, now)
          /\ models' = st.models
          /\ block_updates' = st.block_updates
          /\ ground_items' = st.ground_items
          /\ panicked' = st.panicked
          /\ world' = [p \in DOMAIN world |->
                          IF \E i \in DOMAIN st.block_updates :
                                st.block_updates[i].position = p
                          THEN "air" ELSE world[p]]
    /\ elapsed' = now
    /\ before' = [being_broken |-> being_broken, models |-> models]
    /\ phase' = "apply"
    /\ UNCHANGED <<health, visible_hearts, interface_update, read_log>>
    /\ UNCHANGED <<inventory, clicks, right_clicks, hand_interactions,
                   item_uses, targets, block_breaking_events>>

\* hand.rs:71-255; `now` is Instant::now() on the clock whose zero is the
\* previous run's Instant::now()
BreakBlocks(now) ==
    /\ phase = "break"
    /\ ~panicked
    /\ LET st == BreakRun([being_broken |-> being_broken, models |-> models,
                           block_updates |-> block_updates,
                           ground_items |-> ground_items, panicked |-> FALSE],
                          block_breaking_events, now, inventory)
       IN /\ being_broken' = Rebase(st.being_broken, now)
          /\ models' = st.models
          /\ block_updates' = st.block_updates
          /\ ground_items' = st.ground_items
          /\ panicked' = st.panicked
    /\ elapsed' = now
    /\ before' = [being_broken |-> being_broken, models |-> models]
    /\ phase' = "apply"
    /\ UNCHANGED <<health, visible_hearts, interface_update, read_log>>
    /\ UNCHANGED <<world, inventory, clicks, right_clicks, hand_interactions,
                   item_uses, targets, block_breaking_events>>

----------------------------------------------------------------------------
(* The world applies the BlockUpdate events at the end of the tick, the    *)
(* owners of the interaction sinks drain them, the events of the tick are  *)
(* dropped.                                                                *)

RECURSIVE ApplyUpdates(_, _, _)
ApplyUpdates(w, updates, i) ==
    IF i > Len(updates) THEN w
    ELSE ApplyUpdates([w EXCEPT ![updates[i].position] = updates[i].block_id],
                      updates, i + 1)

\* every sink empty
NoInteractions == [e \in {"model_a", "model_b", "boat"} |-> << >>]

NothingBefore == [being_broken |-> << >>, models |-> << >>]

EndTick ==
    /\ phase = "apply"
    /\ ~panicked
    /\ world' = ApplyUpdates(world, block_updates, 1)
    /\ clicks' = << >>
    /\ right_clicks' = << >>
    /\ hand_interactions' = NoInteractions
    /\ item_uses' = << >>
    /\ targets' = << >>
    /\ block_breaking_events' = << >>
    /\ block_updates' = << >>
    /\ ground_items' = << >>
    /\ elapsed' = 0
    /\ before' = NothingBefore
    /\ phase' = "clicks"
    /\ UNCHANGED <<health, visible_hearts, interface_update, read_log>>
    /\ UNCHANGED <<inventory, being_broken, models, panicked>>

----------------------------------------------------------------------------
(* Health (health.rs).  u32 is modelled as an unsigned integer of WordBits  *)
(* bits.                                                                    *)

WordBits == 4
U32_MAX == 2^WordBits - 1

\* largest Health::max of the model
MaxHearts == 3

\* u32::saturating_sub, u32::saturating_add
SaturatingSub(a, b) == IF b > a THEN 0 ELSE a - b

\* mutant: the addition wraps
WrappingAdd(a, b) == (a + b) % (2^WordBits)

SaturatingAdd(a, b) == IF b > U32_MAX - a THEN U32_MAX ELSE a + b

\* Ord::min
MinOf(a, b) == IF a <= b THEN a ELSE b

\* InterfaceNodeVisibilityUpdate::default()
NoUpdate == [hidden |-> {}, visible |-> {}, death_screen |-> FALSE]

\* health.rs:63-73  Health::take_damage: the health after the call and the
\* update it returns; the icon "hotbar/health/n" is n
TakeDamage(h, damage) ==
    LET old_hearts == h.hearts
        hearts == SaturatingSub(h.hearts, damage)
    IN [health |-> [h EXCEPT !.hearts = hearts],
        image_update |-> [NoUpdate EXCEPT
                            !.hidden = {i + 1 : i \in hearts..(old_hearts - 1)}]]

\* health.rs:75-85  Health::heal
Heal(h, healing) ==
    LET old_hearts == h.hearts
        hearts == MinOf(SaturatingAdd(h.hearts, healing), h.max)
    IN [health |-> [h EXCEPT !.hearts = hearts],
        image_update |-> [NoUpdate EXCEPT
                            !.visible = {i + 1 : i \in old_hearts..(hearts - 1)}]]

\* the interface of the player after an update: nodes set hidden are hidden,
\* nodes set visible are shown
Shown(icons, update) == (icons \ update.hidden) \cup update.visible

\* health.rs:131-140  change_health, one DamageEvent
DamageEvent(player_entity, damage) ==
    /\ LET out == TakeDamage(health[player_entity], damage)
           update == IF out.health.hearts = 0
                     THEN [out.image_update EXCEPT !.death_screen = TRUE]
                     ELSE out.image_update
       IN /\ health' = [health EXCEPT ![player_entity] = out.health]
          /\ visible_hearts' = [visible_hearts EXCEPT ![player_entity] = Shown(@, update)]
          /\ interface_update' = [call |-> "take_damage", player_entity |-> player_entity,
                                  amount |-> damage,
                                  old_hearts |-> health[player_entity].hearts,
                                  update |-> update]
    /\ UNCHANGED <<handVars, read_log>>

\* health.rs:142-146  change_health, one HealEvent
HealEvent(player_entity, healing) ==
    /\ LET out == Heal(health[player_entity], healing)
       IN /\ health' = [health EXCEPT ![player_entity] = out.health]
          /\ visible_hearts' =
                [visible_hearts EXCEPT ![player_entity] = Shown(@, out.image_update)]
          /\ interface_update' = [call |-> "heal", player_entity |-> player_entity,
                                  amount |-> healing,
                                  old_hearts |-> health[player_entity].hearts,
                                  update |-> out.image_update]
    /\ UNCHANGED <<handVars, read_log>>

\* nothing sent yet
NothingSent == [call |-> "none", player_entity |-> "", amount |-> 0,
                old_hearts |-> 0, update |-> NoUpdate]

\* Health::default() scaled to MaxHearts, every heart shown
HealthAtRest ==
    /\ health = [pl \in Players |-> [hearts |-> MaxHearts, max |-> MaxHearts]]
    /\ visible_hearts = [pl \in Players |-> 1..MaxHearts]
    /\ interface_update = NothingSent

----------------------------------------------------------------------------
(* HandInteractions as a queue                                             *)

\* most entries of a sink between two reads
MaxQueue == 2

\* the sinks pushed to and read
QueueSinks == {"boat", "model_a"}

\* mutant: the read leaves the last element in the vector
ReadButLast(player_entities) ==
    IF player_entities = << >> THEN [yielded |-> << >>, player_entities |-> << >>]
    ELSE [yielded |-> SubSeq(player_entities, 1, Len(player_entities) - 1),
          player_entities |-> << player_entities[Len(player_entities)] >>]

\* hand.rs:42-44  HandInteractions::read: drain(..) yields every element in
\* order and leaves the vector empty
Read(player_entities) == [yielded |-> player_entities, player_entities |-> << >>]

NothingRead == [e \in {"model_a", "model_b", "boat"} |->
                    [pushed |-> << >>, yielded |-> << >>, expected |-> << >>]]

QueuesAtRest == read_log = NothingRead

\* hand.rs:47-49  a caller pushes a player on the sink of an entity
PushInteraction(entity, player_entity) ==
    /\ Len(hand_interactions[entity]) < MaxQueue
    /\ hand_interactions' =
          Push([hand_interactions |-> hand_interactions], entity, player_entity).hand_interactions
    /\ read_log' = [read_log EXCEPT ![entity].pushed = Append(@, player_entity)]
    /\ UNCHANGED <<world, inventory, being_broken, models, clicks, right_clicks,
                   item_uses, targets, block_breaking_events, block_updates,
                   ground_items, elapsed, before, phase, panicked,
                   health, visible_hearts, interface_update>>

\* hand.rs:42-44  the owner of the sink reads it to the end
ReadInteractions(entity) ==
    /\ LET out == Read(hand_interactions[entity])
       IN /\ hand_interactions' = [hand_interactions EXCEPT ![entity] = out.player_entities]
          /\ read_log' = [read_log EXCEPT ![entity] =
                            [pushed |-> << >>, yielded |-> out.yielded,
                             expected |-> read_log[entity].pushed]]
    /\ UNCHANGED <<world, inventory, being_broken, models, clicks, right_clicks,
                   item_uses, targets, block_breaking_events, block_updates,
                   ground_items, elapsed, before, phase, panicked,
                   health, visible_hearts, interface_update>>

----------------------------------------------------------------------------
(* The server: one tick after the other *)

\* the worlds at start: any block at position a, any block that breaks
\* instantly or not at all at position b
InitialWorlds ==
    { w \in [Positions -> {"bedrock", "stone", "flower", "fire"}] : w["b"] # "stone" }

\* alice holds a tool, bob an item that is no tool or nothing
InitialInventories ==
    { [pl \in Players |-> IF pl = "alice" THEN [item |-> "pickaxe", size |-> 1] ELSE stack] :
        stack \in {EmptyStack, [item |-> "flower", size |-> 2]} }

Init ==
    /\ world \in InitialWorlds
    /\ inventory \in InitialInventories
    /\ being_broken = << >>
    /\ models = << >>
    /\ clicks = << >>
    /\ right_clicks = << >>
    /\ hand_interactions = NoInteractions
    /\ item_uses = << >>
    /\ targets = << >>
    /\ block_breaking_events = << >>
    /\ block_updates = << >>
    /\ ground_items = << >>
    /\ elapsed = 0
    /\ before = NothingBefore
    /\ phase = "clicks"
    /\ panicked = FALSE
    /\ HealthAtRest
    /\ QueuesAtRest

LeftClicks == \E cs \in SeqsUpTo(BlockClicks(world), MaxClicks) : HandleLeftClicks(cs)

Break == \E now \in TickDurations : BreakBlocks(now)

Next == LeftClicks \/ Break \/ EndTick

Spec == Init /\ [][Next]_vars

----------------------------------------------------------------------------
(* Target resolution: one click a tick, left or right, whose ray meets any *)
(* mix of a block and model entities.                                      *)

\* ray_intersection distances of model entities: nearer than the block, as
\* far as the block, beyond RAY_DISTANCE
ObjectDistances == {2, 3, 6}

\* the distances at which one ray meets the model entities of world w: at
\* most two of them are met
ModelDistances(w) ==
    { m \in [{ModelEntities[i] : i \in DOMAIN ModelEntities} ->
                {None} \cup {Some(d) : d \in ObjectDistances}] :
        /\ \A e \in DOMAIN m : ~Exists(w, e) => m[e] = None
        /\ Cardinality({e \in DOMAIN m : m[e] # None}) <= 2 }

\* the click messages of world w; `distance` is the offset of the player
\* from the block that is met
RayClicks(w) ==
    { [player_entity |-> pl, block_hit |-> bh, model_distance |-> m,
       distance |-> [x |-> 1, z |-> 0]] :
        pl \in {"bob", "carol"},
        bh \in {None} \cup {Some(h) : h \in BlockHits(w, {"Top", "Front"}, BlockDistances)},
        m \in ModelDistances(w) }

ClickWorlds == [Positions -> {"bedrock", "flower", "chest"}]

ClickInventories ==
    { [pl \in Players |-> IF pl = "alice" THEN [item |-> "pickaxe", size |-> 1] ELSE stack] :
        stack \in {[item |-> "flower", size |-> 1], [item |-> "bucket", size |-> 1]} }

InitClick ==
    /\ world \in ClickWorlds
    /\ inventory \in ClickInventories
    /\ being_broken = << >>
    /\ models = << >>
    /\ clicks = << >>
    /\ right_clicks = << >>
    /\ hand_interactions = NoInteractions
    /\ item_uses = << >>
    /\ targets = << >>
    /\ block_breaking_events = << >>
    /\ block_updates = << >>
    /\ ground_items = << >>
    /\ elapsed = 0
    /\ before = NothingBefore
    /\ phase = "clicks"
    /\ panicked = FALSE
    /\ HealthAtRest
    /\ QueuesAtRest

RightRay == \E c \in RayClicks(world) : HandleRightClicks(<< c >>)

LeftRay == phase = "clicks" /\ \E c \in RayClicks(world) : HandleLeftClicks(<< c >>)

NoLeftClick == phase = "left" /\ HandleLeftClicks(<< >>)

\* the player of the right click has the other button down on the same ray
SameRay == phase = "left" /\ HandleLeftClicks(<< right_clicks[1] >>)

BreakClicked == BreakBlocks(CLICK_INTERVAL)

NextClick == RightRay \/ LeftRay \/ NoLeftClick \/ SameRay \/ BreakClicked \/ EndTick

SpecClick == InitClick /\ [][NextClick]_vars

----------------------------------------------------------------------------
(* Placement: one right click a tick by a player that holds a usable item  *)
(* or a block of any placement configuration; the ray meets no model       *)
(* entity.                                                                 *)

\* player_position.translation().as_ivec3() - block_pos, its x and z
Offsets == { [x |-> 1, z |-> 0], [x |-> 0 - 1, z |-> 0 - 1],
             [x |-> 0, z |-> 1], [x |-> 0 - 1, z |-> 0] }

PlaceClicks(w) ==
    { [player_entity |-> "bob", block_hit |-> bh, model_distance |-> NoModelDistance,
       distance |-> o] :
        bh \in {None} \cup {Some(h) : h \in BlockHits(w, Faces, BlockDistances)},
        o \in Offsets }

PlaceWorlds == [Positions -> {"bedrock", "fire", "air"}]

PlaceInventories ==
    { [pl \in Players |-> IF pl = "alice" THEN [item |-> "pickaxe", size |-> 1] ELSE stack] :
        stack \in { [item |-> i, size |-> 1] : i \in OrientedBlockIds \cup {"bucket"} } }

InitPlace ==
    /\ world \in PlaceWorlds
    /\ inventory \in PlaceInventories
    /\ being_broken = << >>
    /\ models = << >>
    /\ clicks = << >>
    /\ right_clicks = << >>
    /\ hand_interactions = NoInteractions
    /\ item_uses = << >>
    /\ targets = << >>
    /\ block_breaking_events = << >>
    /\ block_updates = << >>
    /\ ground_items = << >>
    /\ elapsed = 0
    /\ before = NothingBefore
    /\ phase = "clicks"
    /\ panicked = FALSE
    /\ HealthAtRest
    /\ QueuesAtRest

RightPlace == \E c \in PlaceClicks(world) : HandleRightClicks(<< c >>)

NextPlace == RightPlace \/ NoLeftClick \/ BreakClicked \/ EndTick

SpecPlace == InitPlace /\ [][NextPlace]_vars

----------------------------------------------------------------------------
(* Two right clicks in one tick                                            *)

PairStacks ==
    { [item |-> "flower", size |-> 2], [item |-> "flower", size |-> 1],
      [item |-> OrientedBlocks[1], size |-> 1], [item |-> "bucket", size |-> 1],
      EmptyStack }

PairInventories == [Players -> PairStacks]

PairClicks(w) ==
    { [player_entity |-> pl, block_hit |-> bh, model_distance |-> NoModelDistance,
       distance |-> [x |-> 1, z |-> 0]] :
        pl \in Players,
        bh \in {None} \cup {Some(h) : h \in BlockHits(w, {"Top", "Front"}, BlockDistances)} }

InitPair ==
    /\ world \in PlaceWorlds
    /\ inventory \in PairInventories
    /\ being_broken = << >>
    /\ models = << >>
    /\ clicks = << >>
    /\ right_clicks = << >>
    /\ hand_interactions = NoInteractions
    /\ item_uses = << >>
    /\ targets = << >>
    /\ block_breaking_events = << >>
    /\ block_updates = << >>
    /\ ground_items = << >>
    /\ elapsed = 0
    /\ before = NothingBefore
    /\ phase = "clicks"
    /\ panicked = FALSE
    /\ HealthAtRest
    /\ QueuesAtRest

RightPair == \E c1, c2 \in PairClicks(world) : HandleRightClicks(<< c1, c2 >>)

NextPair == RightPair \/ NoLeftClick \/ BreakClicked \/ EndTick

SpecPair == InitPair /\ [][NextPair]_vars

----------------------------------------------------------------------------
(* Health: damage and heal events for players of any health                *)

\* the amounts of the events; u32::MAX is the healing of the death interface
Amounts == {0, 1, 2, U32_MAX}

HealthStates == { h \in [hearts : 0..MaxHearts, max : 1..MaxHearts] : h.hearts <= h.max }

InitHealth ==
    /\ world = [p \in Positions |-> "bedrock"]
    /\ inventory = [pl \in Players |-> EmptyStack]
    /\ being_broken = << >>
    /\ models = << >>
    /\ clicks = << >>
    /\ right_clicks = << >>
    /\ hand_interactions = NoInteractions
    /\ item_uses = << >>
    /\ targets = << >>
    /\ block_breaking_events = << >>
    /\ block_updates = << >>
    /\ ground_items = << >>
    /\ elapsed = 0
    /\ before = NothingBefore
    /\ phase = "clicks"
    /\ panicked = FALSE
    /\ health \in [Players -> HealthStates]
    /\ visible_hearts = [pl \in Players |-> 1..health[pl].hearts]
    /\ interface_update = NothingSent
    /\ QueuesAtRest

Damage == \E pl \in Players, damage \in Amounts : DamageEvent(pl, damage)

Healing == \E pl \in Players, healing \in Amounts : HealEvent(pl, healing)

NextHealth == Damage \/ Healing

SpecHealth == InitHealth /\ [][NextHealth]_vars

----------------------------------------------------------------------------
(* The queue: pushes and reads in any order                                *)

InitQueue ==
    /\ world = [p \in Positions |-> "chest"]
    /\ inventory = [pl \in Players |-> EmptyStack]
    /\ being_broken = << >>
    /\ models = << >>
    /\ clicks = << >>
    /\ right_clicks = << >>
    /\ hand_interactions = NoInteractions
    /\ item_uses = << >>
    /\ targets = << >>
    /\ block_breaking_events = << >>
    /\ block_updates = << >>
    /\ ground_items = << >>
    /\ elapsed = 0
    /\ before = NothingBefore
    /\ phase = "clicks"
    /\ panicked = FALSE
    /\ HealthAtRest
    /\ QueuesAtRest

Pushes == \E e \in QueueSinks, pl \in Players : PushInteraction(e, pl)

Reads == \E e \in QueueSinks : ReadInteractions(e)

NextQueue == Pushes \/ Reads

SpecQueue == InitQueue /\ [][NextQueue]_vars

----------------------------------------------------------------------------
(* What a state shows of the tick once break_blocks has run *)

\* break_blocks has run in this tick and nothing panicked
Ran == phase = "apply" /\ ~panicked

\* the events of the tick that name block_position p, by index
EventsAt(p) == {i \in DOMAIN block_breaking_events :
                    block_breaking_events[i].block_position = p}

Min(S) == CHOOSE x \in S : \A y \in S : x <= y

\* the first event of the tick that names p
FirstEventAt(p) == block_breaking_events[Min(EventsAt(p))]

\* the time from the last hit of the entry of p to this run's `now`
SincePrevHit(p) == elapsed - before.being_broken[p].prev_hit

\* number of elements of a sequence that satisfy a test
CountIn(q, Test(_)) == Cardinality({i \in DOMAIN q : Test(q[i])})

\* BlockUpdate events of the tick for p, ground items spawned at p
UpdatesAt(p) == LET At(u) == u.position = p IN CountIn(block_updates, At)
AirUpdatesAt(p) == LET At(u) == u = AirUpdate(p) IN CountIn(block_updates, At)
GroundItemsAt(p) == LET At(g) == g.position = p IN CountIn(ground_items, At)

\* efficiency as the specification words it: the tool efficiency of the
\* equipped item, 1.0 for an empty stack or an item without tool configuration
EfficiencyOf(stack) ==
    IF stack.size = 0 THEN 1
    ELSE IF ToolConfig(stack.item) = None THEN 1
    ELSE ToolConfig(stack.item)[1].efficiency

\* a hit in this tick on an entry that was stored before, for a block of
\* hardness above 0, at a `now` that differs from the entry's last hit
HitOnEntry(p) ==
    /\ Ran
    /\ p \in DOMAIN before.being_broken
    /\ EventsAt(p) # {}
    /\ Hardness(FirstEventAt(p).block_id) # None
    /\ Hardness(FirstEventAt(p).block_id)[1] > 0
    /\ SincePrevHit(p) # 0

\* elapsed_seconds / h * efficiency of the first hit on p, in thousandths
HitDelta(p) ==
    ((SincePrevHit(p) * 1000) \div Hardness(FirstEventAt(p).block_id)[1])
        * EfficiencyOf(inventory[FirstEventAt(p).player_entity])

\* the hit on p changed nothing but the time of the last hit
OnlyTimestamp(p) ==
    /\ p \in DOMAIN being_broken
    /\ being_broken[p].progress = before.being_broken[p].progress
    /\ being_broken[p].prev_hit = 0

\* the hit on p added HitDelta(p) to the progress and set the time of the
\* last hit; an entry that reached 1.0 this way is gone after the run
ProgressAdded(p) ==
    LET progress == before.being_broken[p].progress + HitDelta(p)
    IN IF progress >= 1000 THEN p \notin DOMAIN being_broken
       ELSE /\ p \in DOMAIN being_broken
            /\ being_broken[p].progress = progress
            /\ being_broken[p].prev_hit = 0

----------------------------------------------------------------------------
(* C1 *)

\* C1 as stated: a hit on an entry at most 50 ms after its last hit changes
\* the timestamp only, a later hit adds elapsed / hardness * efficiency.
C1_AsStated ==
    \A p \in Positions : HitOnEntry(p) =>
        IF SincePrevHit(p) <= 50 THEN OnlyTimestamp(p) ELSE ProgressAdded(p)

\* C1, amended: a hit on an entry MORE than 50 ms after its last hit changes
\* the timestamp only and leaves the progress; a hit at most 50 ms after it
\* adds elapsed_seconds / hardness * efficiency to the progress and sets the
\* timestamp, with efficiency 1.0 for an empty stack or an item that is no tool.
C1_HeldHitAddsProgress ==
    \A p \in Positions : HitOnEntry(p) =>
        IF SincePrevHit(p) > 50 THEN OnlyTimestamp(p) ELSE ProgressAdded(p)

\* both branches of C1 are met, with a tool, an item that is no tool and an
\* empty stack
C1_Witness ==
    /\ Ran
    /\ \E p \in Positions :
        /\ HitOnEntry(p) /\ SincePrevHit(p) <= 50
        /\ FirstEventAt(p).player_entity = "bob"
        /\ inventory["bob"].size > 0
        /\ p \in DOMAIN being_broken
        /\ being_broken[p].progress = 600

----------------------------------------------------------------------------
(* C2 *)

\* the block of p was broken in this tick: one command replaces it with air
\* and no entry is left for p
BrokenNow(p) ==
    /\ AirUpdatesAt(p) = 1
    /\ UpdatesAt(p) = 1
    /\ p \notin DOMAIN being_broken

\* the hit on p made the entry's progress grow, or broke the block
Progressed(p) ==
    \/ /\ p \in DOMAIN being_broken
       /\ being_broken[p].progress > before.being_broken[p].progress
       /\ being_broken[p].progress < 1000
       /\ UpdatesAt(p) = 0
    \/ /\ before.being_broken[p].progress + HitDelta(p) >= 1000
       /\ BrokenNow(p)

\* C2 as stated: every hit that follows the last one by at least 50 ms and
\* by less than the 500 ms timeout makes the progress grow until the block
\* is broken.
C2_AsStated ==
    \A p \in Positions :
        (HitOnEntry(p) /\ SincePrevHit(p) >= 50 /\ SincePrevHit(p) < 500)
            => Progressed(p)

\* C2, amended: for a block of hardness h > 0, every hit that follows the
\* last one by AT MOST 50 ms (and not at the same instant) makes the entry's
\* progress strictly larger, so hits that keep arriving that way reach 1.0;
\* in the tick in which the progress reaches 1.0 one block-mutation command
\* replacing the block with air is issued and no entry is left for the
\* position after that tick; until then no command is issued for it.
C2_HeldHitsBreakTheBlock ==
    \A p \in Positions :
        (HitOnEntry(p) /\ SincePrevHit(p) <= 50) => Progressed(p)

\* a block is broken by progress accumulated over several hits
C2_Witness ==
    \E p \in Positions :
        /\ HitOnEntry(p) /\ SincePrevHit(p) <= 50
        /\ before.being_broken[p].progress = 600
        /\ BrokenNow(p)

----------------------------------------------------------------------------
(* C3 *)

\* one hit in this tick on p, which had no entry, the block breaking instantly
SingleInstantHit(p) ==
    /\ Ran
    /\ p \notin DOMAIN before.being_broken
    /\ Cardinality(EventsAt(p)) = 1
    /\ Hardness(FirstEventAt(p).block_id) = Some(0)

\* the drop the block's drop table yields for the tool the player of the
\* first hit on p holds
DropAt(p) ==
    LET stack == inventory[FirstEventAt(p).player_entity]
        name == IF stack.size = 0 \/ ToolConfig(stack.item) = None THEN None
                ELSE Some(ToolConfig(stack.item)[1].name)
    IN Drop(FirstEventAt(p).block_id, name)

\* C3: one hit on a hardness-0 block without entry issues, in that tick,
\* one command replacing the block with air and, if the drop table yields a
\* drop for the tool, spawns exactly one ground item of that item id and
\* count at the position; without a drop no ground item is spawned and the
\* block is removed all the same.
C3_InstantBreak ==
    \A p \in Positions : SingleInstantHit(p) =>
        /\ AirUpdatesAt(p) = 1
        /\ UpdatesAt(p) = 1
        /\ IF DropAt(p) = None THEN GroundItemsAt(p) = 0
           ELSE /\ GroundItemsAt(p) = 1
                /\ \E i \in DOMAIN ground_items :
                     ground_items[i] = [item_id |-> DropAt(p)[1][1],
                                        count |-> DropAt(p)[1][2],
                                        position |-> p]

\* in one tick a block with a drop and a block without are broken instantly
C3_Witness ==
    /\ SingleInstantHit("a") /\ DropAt("a") # None
    /\ SingleInstantHit("b") /\ DropAt("b") = None

----------------------------------------------------------------------------
(* C4 *)

\* the entities alive at p that show a breaking block
ProxiesAt(p) == {e \in DOMAIN models : models[e].position = p}

\* C4: a position whose block has no hardness never has an entry, no block
\* mutation command is issued for it and no ground item or visual proxy is
\* spawned at it, however often it is hit.
C4_Unbreakable ==
    \A p \in Positions : Hardness(world[p]) = None =>
        /\ p \notin DOMAIN being_broken
        /\ UpdatesAt(p) = 0
        /\ GroundItemsAt(p) = 0
        /\ ProxiesAt(p) = {}

\* an unbreakable block is hit twice in a tick, by a player with a tool and
\* by one without, tick after tick
C4_Witness ==
    /\ Ran
    /\ \E p \in Positions :
        /\ world[p] = "bedrock"
        /\ Cardinality(EventsAt(p)) = 2
        /\ \E other \in Positions : other \in DOMAIN before.being_broken

----------------------------------------------------------------------------
(* C5 *)

\* the entry of p was last hit more than 500 ms before this run's cleanup
StaleAtCleanup(p) ==
    /\ Ran
    /\ p \in DOMAIN before.being_broken
    /\ EventsAt(p) = {}
    /\ SincePrevHit(p) > 500

\* C5: an entry whose last hit is more than 500 ms old when the cleanup of
\* the tick runs is removed whatever its progress, with no block mutation
\* command and no ground item; its progress is lost: an entry that appears
\* for a position that had none starts at progress 0.
C5_Timeout ==
    /\ \A p \in Positions : StaleAtCleanup(p) =>
            /\ p \notin DOMAIN being_broken
            /\ UpdatesAt(p) = 0
            /\ GroundItemsAt(p) = 0
    /\ Ran => \A p \in (DOMAIN being_broken) \ (DOMAIN before.being_broken) :
                being_broken[p].progress = 0

\* an entry with progress is removed by the timeout
C5_Witness ==
    \E p \in Positions :
        /\ StaleAtCleanup(p)
        /\ before.being_broken[p].progress = 400
        /\ p \notin DOMAIN being_broken

----------------------------------------------------------------------------
(* C6 *)

\* the events of the tick without those that name a position an earlier
\* event of the tick names
FirstPerPosition(events) ==
    LET firsts == {i \in DOMAIN events :
                     \A j \in 1..(i - 1) : events[j].block_position # events[i].block_position}
        RECURSIVE Pick(_)
        Pick(i) == IF i > Len(events) THEN << >>
                   ELSE IF i \in firsts THEN <<events[i]>> \o Pick(i + 1)
                   ELSE Pick(i + 1)
    IN Pick(1)

\* C6: of several events of one tick for the same position only the first
\* changes anything: the entries, the proxies, the block mutation commands
\* and the ground items after the run are those of a run over the first
\* event of every position alone.
C6_DuplicatesCollapsed ==
    Ran =>
        LET once == BreakRun([being_broken |-> before.being_broken,
                              models |-> before.models,
                              block_updates |-> << >>, ground_items |-> << >>,
                              panicked |-> FALSE],
                             FirstPerPosition(block_breaking_events), elapsed, inventory)
        IN /\ being_broken = Rebase(once.being_broken, elapsed)
           /\ models = once.models
           /\ block_updates = once.block_updates
           /\ ground_items = once.ground_items

----------------------------------------------------------------------------
(* C7 *)

\* C7: in one tick at most one block mutation command is issued and at most
\* one ground item is spawned for a position, however many events name it.
C7_OneCommandPerPosition ==
    \A p \in Positions : UpdatesAt(p) <= 1 /\ GroundItemsAt(p) <= 1

\* the part of C7 the code keeps: at most one ground item for a position in
\* a tick, and at most one command for a block that is not a hardness-0
\* block without drop
C7_GuardedPositions ==
    \A p \in Positions :
        /\ GroundItemsAt(p) <= 1
        /\ (EventsAt(p) # {} /\ ~(Hardness(FirstEventAt(p).block_id) = Some(0)
                                  /\ DropAt(p) = None))
              => UpdatesAt(p) <= 1

----------------------------------------------------------------------------
(* Target resolution of the two click handlers                             *)

\* handle_left_clicks has read one click of a player that has its components
LeftResolved ==
    /\ phase \in {"break", "apply"}
    /\ Len(clicks) = 1
    /\ clicks[1].player_entity \in Players

\* handle_right_clicks has read one click of a player that has its components
RightResolved ==
    /\ phase # "clicks"
    /\ Len(right_clicks) = 1
    /\ right_clicks[1].player_entity \in Players

\* the objects whose hit volume the ray of a left click meets: model entities
\* attached to a block position whose block has a hitbox
ObjectsHitLeft(click) ==
    { e \in DOMAIN click.model_distance :
        /\ click.model_distance[e] # None
        /\ BlockPositionOf(e) # None
        /\ HasHitbox(world[Unwrap(BlockPositionOf(e))]) }

\* the objects whose hit volume the ray of a right click meets: model
\* entities with a bounding volume
ObjectsHitRight(click) ==
    { e \in DOMAIN click.model_distance :
        click.model_distance[e] # None /\ HasAabb(e) }

\* the distance of the nearest of a non-empty set of objects, the nearest ones
NearestDistance(click, objects) ==
    Min({Unwrap(click.model_distance[e]) : e \in objects})
NearestObjects(click, objects) ==
    { e \in objects : Unwrap(click.model_distance[e]) = NearestDistance(click, objects) }

\* the one event of the tick targets a nearest object: its attached position
\* and the block id of that position
EventTargetsObject(click, objects) ==
    \E e \in NearestObjects(click, objects) :
        block_breaking_events =
            << [player_entity  |-> click.player_entity,
                block_position |-> Unwrap(BlockPositionOf(e)),
                block_id       |-> world[Unwrap(BlockPositionOf(e))]] >>

\* the one event of the tick targets the block of the grid raycast
EventTargetsBlock(click) ==
    block_breaking_events =
        << [player_entity  |-> click.player_entity,
            block_position |-> Unwrap(click.block_hit).position,
            block_id       |-> Unwrap(click.block_hit).block_id] >>

\* C8: handle_left_clicks, ray meets a block and an object: the event targets
\* the object (attached position, block id of that position) when the object
\* is nearer, the grid block when the block is nearer; only one met: that one
\* is targeted; neither met: no event.
C8_LeftTarget ==
    LeftResolved =>
        LET click == clicks[1]
            objects == ObjectsHitLeft(click)
        IN IF click.block_hit # None /\ objects # {} THEN
               /\ NearestDistance(click, objects) < Unwrap(click.block_hit).distance
                    => EventTargetsObject(click, objects)
               /\ Unwrap(click.block_hit).distance < NearestDistance(click, objects)
                    => EventTargetsBlock(click)
           ELSE IF objects # {} THEN EventTargetsObject(click, objects)
           ELSE IF click.block_hit # None THEN EventTargetsBlock(click)
           ELSE block_breaking_events = << >>

\* a left click whose ray meets the block of one position and, nearer, the
\* object attached to the other position: the event names the other position
C8_Witness ==
    /\ LeftResolved
    /\ clicks[1].block_hit # None
    /\ ObjectsHitLeft(clicks[1]) # {}
    /\ NearestDistance(clicks[1], ObjectsHitLeft(clicks[1]))
            < Unwrap(clicks[1].block_hit).distance
    /\ Len(block_breaking_events) = 1
    /\ block_breaking_events[1].block_position # Unwrap(clicks[1].block_hit).position

\* the candidates of the click that target i resolved, and their distances
RightCount == Cardinality({i \in DOMAIN targets : targets[i].button = "right"})
ClickOf(i) ==
    IF targets[i].button = "left" THEN clicks[i - RightCount] ELSE right_clicks[i]
CandidateDistances(i) ==
    LET click == ClickOf(i)
        objects == IF targets[i].button = "left" THEN ObjectsHitLeft(click)
                   ELSE ObjectsHitRight(click)
    IN {Unwrap(click.model_distance[e]) : e \in objects}
         \cup (IF click.block_hit # None THEN {Unwrap(click.block_hit).distance} ELSE {})

\* the target a handler chose is the nearest of the candidates it tests
C9_Nearest ==
    \A i \in DOMAIN targets :
        IF CandidateDistances(i) = {} THEN targets[i].kind = "none"
        ELSE /\ targets[i].kind # "none"
             /\ targets[i].distance = Min(CandidateDistances(i))

\* C9: the target either handler chooses is the nearest candidate across the
\* block grid and the objects, and never farther from the ray origin than
\* the maximum ray distance; an object beyond it is never selected, also
\* when no block is hit.
C9_NearestWithinRayDistance ==
    /\ C9_Nearest
    /\ \A i \in DOMAIN targets :
            targets[i].kind # "none" => targets[i].distance <= RAY_DISTANCE

\* the ray meets a block and an object at the same distance
LeftTie ==
    /\ LeftResolved
    /\ clicks[1].block_hit # None
    /\ ObjectsHitLeft(clicks[1]) # {}
    /\ NearestDistance(clicks[1], ObjectsHitLeft(clicks[1]))
            = Unwrap(clicks[1].block_hit).distance

RightTie ==
    /\ RightResolved
    /\ right_clicks[1].block_hit # None
    /\ ObjectsHitRight(right_clicks[1]) # {}
    /\ NearestDistance(right_clicks[1], ObjectsHitRight(right_clicks[1]))
            = Unwrap(right_clicks[1].block_hit).distance

\* the sinks of the block entities and the item uses are untouched by the
\* right click of the tick, and no block is placed
BlockUntouched ==
    /\ hand_interactions["model_a"] = << >>
    /\ hand_interactions["model_b"] = << >>
    /\ item_uses = << >>
    /\ \A i \in DOMAIN block_updates : block_updates[i].block_id = "air"

\* C10 as stated: at equal distance handle_left_clicks selects the object and
\* handle_right_clicks selects the block.
C10_AsStated ==
    /\ LeftTie => targets[Len(targets)].kind = "object" /\ EventTargetsObject(clicks[1], ObjectsHitLeft(clicks[1]))
    /\ RightTie => targets[1].kind = "block"

\* C10, as the code has it: at equal distance the two handlers break the tie
\* in opposite ways, handle_left_clicks selects the block and
\* handle_right_clicks selects the object.
C10_TieBreak ==
    /\ LeftTie => targets[Len(targets)].kind = "block" /\ EventTargetsBlock(clicks[1])
    /\ RightTie => targets[1].kind = "object" /\ BlockUntouched

\* both buttons on one ray that meets the block of one position, the object
\* attached to the other position and the boat, all at the same distance: the
\* event names the block, the boat's sink has the player
C10_Witness ==
    /\ LeftTie
    /\ RightTie
    /\ Len(block_breaking_events) = 1
    /\ \A e \in ObjectsHitLeft(clicks[1]) :
          Unwrap(BlockPositionOf(e)) # block_breaking_events[1].block_position
    /\ hand_interactions["boat"] = << right_clicks[1].player_entity >>

----------------------------------------------------------------------------
(* Acceptance of objects by handle_right_clicks                            *)

\* the objects met by the ray of a right click that are not beyond the block
\* hit; all of them when no block is hit
AcceptedRight(click) ==
    { e \in ObjectsHitRight(click) :
        \/ click.block_hit = None
        \/ Unwrap(click.model_distance[e]) <= Unwrap(click.block_hit).distance }

\* the boat is accepted and nearer than every other accepted object
BoatNearest(click) ==
    /\ "boat" \in AcceptedRight(click)
    /\ \A e \in AcceptedRight(click) \ {"boat"} :
          Unwrap(click.model_distance["boat"]) < Unwrap(click.model_distance[e])

\* another accepted object is nearer than the boat, or the boat is not accepted
BoatNotNearest(click) ==
    \/ "boat" \notin AcceptedRight(click)
    \/ \E e \in AcceptedRight(click) \ {"boat"} :
          Unwrap(click.model_distance[e]) < Unwrap(click.model_distance["boat"])

\* C11: handle_right_clicks accepts an object as the target only if its
\* distance does not exceed the distance of the block hit (any distance when
\* no block is hit), and of the accepted objects it chooses the one with the
\* smallest distance.
C11_RightTarget ==
    RightResolved =>
        LET click == right_clicks[1]
        IN IF AcceptedRight(click) = {}
           THEN /\ targets[1].kind # "object"
                /\ hand_interactions["boat"] = << >>
           ELSE /\ targets[1].kind = "object"
                /\ targets[1].distance = NearestDistance(click, AcceptedRight(click))
                /\ BoatNearest(click) =>
                      hand_interactions["boat"] = << click.player_entity >>
                /\ BoatNotNearest(click) => hand_interactions["boat"] = << >>

\* a right click whose ray meets a block, the boat before it and the item at
\* the distance of the block: both are accepted, the boat is chosen
C11_Witness ==
    /\ RightResolved
    /\ right_clicks[1].block_hit # None
    /\ AcceptedRight(right_clicks[1]) = {"boat", "item"}
    /\ BoatNearest(right_clicks[1])
    /\ hand_interactions["boat"] = << right_clicks[1].player_entity >>

----------------------------------------------------------------------------
(* Stages of the visual proxy                                              *)

\* the progress thresholds 0.1 .. 0.9, in thousandths
Thresholds == {100 * k : k \in 1..9}

Max(S) == CHOOSE x \in S : \A y \in S : x >= y

\* the hit of this tick on the entry of p added progress and left the entry
ProgressUpdate(p) ==
    /\ HitOnEntry(p)
    /\ SincePrevHit(p) <= 50
    /\ p \in DOMAIN being_broken

\* the thresholds t with previous progress < t < new progress
Crossed(p) ==
    { t \in Thresholds :
        before.being_broken[p].progress < t /\ t < being_broken[p].progress }

\* the visual proxy of the entry of p before and after the run
ProxyBefore(p) == before.models[before.being_broken[p].model_entity]
Proxy(p) == models[being_broken[p].model_entity]

\* the one stage change of threshold t: visibility at 0.1, the texture of the
\* decile above
StageChange(model, t) ==
    IF t = 100 THEN [model EXCEPT !.is_visible = TRUE]
    ELSE [model EXCEPT !.texture = t \div 100]

\* C12: a progress update that does not complete the block applies exactly
\* one stage change, that of the highest threshold t with previous progress
\* < t < new progress: a jump over several thresholds applies the highest
\* only, an update that crosses none changes neither texture nor visibility.
C12_HighestStageOnly ==
    \A p \in Positions : ProgressUpdate(p) =>
        /\ being_broken[p].model_entity = before.being_broken[p].model_entity
        /\ Proxy(p) = IF Crossed(p) = {} THEN ProxyBefore(p)
                      ELSE StageChange(ProxyBefore(p), Max(Crossed(p)))

\* one update from 0.0 to 0.4: the texture of 0.3 is set, nothing else
C12_Witness ==
    \E p \in Positions :
        /\ ProgressUpdate(p)
        /\ Crossed(p) = {100, 200, 300}
        /\ Proxy(p).texture = 3
        /\ ~Proxy(p).is_visible

\* C13: an update that crosses several thresholds at once leaves the proxy
\* with every stage at or below the new progress applied, the 0.1 stage that
\* makes it visible included, and no stage above the new progress.
C13_AllStagesApplied ==
    \A p \in Positions : (ProgressUpdate(p) /\ Cardinality(Crossed(p)) >= 2) =>
        Proxy(p) = [ProxyBefore(p) EXCEPT
                      !.texture = Max(Crossed(p)) \div 100,
                      !.is_visible = IF 100 \in Crossed(p) THEN TRUE ELSE @]

\* C14: the proxy of an entry is hidden while the progress is below 0.1 and
\* visible in every state in which the progress is above 0.1.
C14_VisibleAboveTenth ==
    \A p \in DOMAIN being_broken :
        LET model == models[being_broken[p].model_entity]
        IN model.marker =>
              /\ being_broken[p].progress < 100 => ~model.is_visible
              /\ being_broken[p].progress > 100 => model.is_visible

\* the half of C14 that holds: hidden from creation while below 0.1
C14_HiddenBelowTenth ==
    \A p \in DOMAIN being_broken :
        LET model == models[being_broken[p].model_entity]
        IN (model.marker /\ being_broken[p].progress < 100) => ~model.is_visible

\* C15: the progress of every stored entry is within [0, 1], and the
\* progress of an entry does not decrease from one run of break_blocks to
\* the next while the entry is stored.
C15_ProgressBounded ==
    /\ \A p \in DOMAIN being_broken :
          being_broken[p].progress >= 0 /\ being_broken[p].progress <= ONE
    /\ \A p \in DOMAIN being_broken \cap DOMAIN before.being_broken :
          being_broken[p].progress >= before.being_broken[p].progress

\* an entry whose progress grew in this run and is still short of 1.0
C15_Witness ==
    \E p \in DOMAIN being_broken \cap DOMAIN before.being_broken :
        /\ Ran
        /\ before.being_broken[p].progress = 600
        /\ being_broken[p].progress = 800

----------------------------------------------------------------------------
(* Effects of one right click                                              *)

\* a step of handle_right_clicks that reads one click of a player that has
\* its components
RightStep ==
    /\ phase = "clicks"
    /\ phase' = "left"
    /\ Len(right_clicks') = 1
    /\ right_clicks'[1].player_entity \in Players

\* no object is accepted and the ray meets a block
BlockIsTarget(click) == AcceptedRight(click) = {} /\ click.block_hit # None

\* the block entity of the block the ray meets
HitBlockEntity(click) ==
    CHOOSE e \in DOMAIN hand_interactions :
        BlockPositionOf(e) = Some(Unwrap(click.block_hit).position)

\* the block the ray meets has a block entity with an interaction sink
BlockHasSink(click) ==
    /\ BlockEntityAt(world, Unwrap(click.block_hit).position) # None
    /\ HasHandInteractions(world, HitBlockEntity(click))

\* the click is an interaction: the nearest accepted object is the boat, or
\* no object is accepted and the block that is met has a sink
Interaction(click) ==
    \/ BoatNearest(click)
    \/ BlockIsTarget(click) /\ BlockHasSink(click)

InteractionSink(click) ==
    IF BoatNearest(click) THEN "boat" ELSE HitBlockEntity(click)

\* C16: a right click whose nearest target is an object with an interaction
\* sink, or that meets no object and a block whose block entity has one,
\* enqueues the player once on that sink and does nothing else: no item use,
\* no change of the equipped stack, no block-mutation command.
C16_InteractionConsumes ==
    [][ RightStep =>
          LET click == right_clicks'[1]
          IN Interaction(click) =>
                /\ hand_interactions' =
                      [hand_interactions EXCEPT ![InteractionSink(click)] =
                            Append(@, click.player_entity)]
                /\ item_uses' = item_uses
                /\ inventory' = inventory
                /\ block_updates' = block_updates ]_vars

\* a player that holds a usable item right-clicks a chest: the chest's sink
\* has the player, the item is not used
C16_Witness ==
    /\ RightResolved
    /\ BlockIsTarget(right_clicks[1])
    /\ Unwrap(right_clicks[1].block_hit).block_id = "chest"
    /\ Usable(inventory[right_clicks[1].player_entity].item)
    /\ hand_interactions[HitBlockEntity(right_clicks[1])]
            = << right_clicks[1].player_entity >>
    /\ item_uses = << >>

----------------------------------------------------------------------------
(* Placement                                                               *)

\* the click gets as far as the equipped item: no object is accepted, the
\* ray meets a block without interaction sink, the stack is not empty
PlacementAttempt(click) ==
    /\ BlockIsTarget(click)
    /\ ~BlockHasSink(click)
    /\ inventory[click.player_entity].size > 0

\* the position to mutate as the specification words it: the position of the
\* block that is met if that block is replaceable, else the position next to
\* it on the side of the clicked face if the block there is loaded and
\* replaceable
Destination(click) ==
    LET hit == Unwrap(click.block_hit)
        adjacent == Shift(hit.face, hit.position)
    IN IF Replaceable(hit.block_id) THEN Some(hit.position)
       ELSE IF adjacent \in DOMAIN world /\ Replaceable(world[adjacent])
       THEN Some(adjacent)
       ELSE None

\* the step issued one more block-mutation command, for position p
IssuedAt(p) ==
    /\ Len(block_updates') = Len(block_updates) + 1
    /\ SubSeq(block_updates', 1, Len(block_updates)) = block_updates
    /\ block_updates'[Len(block_updates')].position = p

\* C17: the position to mutate is the hit block's own position if that block
\* is replaceable, else the adjacent position in the direction of the clicked
\* face if the block there is loaded and replaceable; if neither holds the
\* click is aborted with no inventory change and no block-mutation command.
C17_Destination ==
    [][ RightStep =>
          LET click == right_clicks'[1]
          IN PlacementAttempt(click) =>
                IF Destination(click) = None
                THEN inventory' = inventory /\ block_updates' = block_updates
                ELSE ItemBlock(inventory[click.player_entity].item) # None
                        => IssuedAt(Unwrap(Destination(click))) ]_vars

\* a block placed next to a block that is not replaceable, on its top face
C17_Witness ==
    /\ RightResolved
    /\ right_clicks[1].block_hit # None
    /\ Unwrap(right_clicks[1].block_hit).position = "a"
    /\ Unwrap(right_clicks[1].block_hit).face = "Top"
    /\ ~Replaceable(world["a"])
    /\ Len(block_updates) = 1
    /\ block_updates[1].position = "b"

\* the click ends on one of the abort paths of the claim
Aborted(click) ==
    \/ click.block_hit = None
    \/ inventory[click.player_entity].size = 0
    \/ Destination(click) = None
    \/ ItemBlock(inventory[click.player_entity].item) = None

\* C18: for every right click the equipped stack loses exactly one unit if
\* and only if exactly one block-mutation command is issued for it; every
\* abort path (no block hit, empty stack, destination not replaceable, item
\* without placeable block) leaves the stack unchanged and issues no command,
\* while the item-use notification already sent remains.
C18_ConsumeIffPlaced ==
    [][ RightStep =>
          LET click == right_clicks'[1]
              player == click.player_entity
          IN /\ inventory'[player].size \in
                    {inventory[player].size, inventory[player].size - 1}
             /\ Len(block_updates') \in {Len(block_updates), Len(block_updates) + 1}
             /\ (inventory'[player].size = inventory[player].size - 1)
                    <=> (Len(block_updates') = Len(block_updates) + 1)
             /\ \A other \in Players \ {player} : inventory'[other] = inventory[other]
             /\ Aborted(click) =>
                    inventory' = inventory /\ block_updates' = block_updates
             /\ (PlacementAttempt(click) /\ Usable(inventory[player].item)) =>
                    item_uses' = Append(item_uses,
                        [player_entity |-> player,
                         block |-> Some(<<Unwrap(click.block_hit).block_id,
                                          Unwrap(click.block_hit).position>>)]) ]_vars

\* a placement: one command, the stack of one unit is used up
C18_Witness ==
    /\ RightResolved
    /\ Len(block_updates) = 1
    /\ block_updates[1].block_id \in OrientedBlockIds
    /\ inventory[right_clicks[1].player_entity] = EmptyStack

\* an abort after the notification: the item is used, nothing is placed
C18_UsedNotPlaced ==
    /\ RightResolved
    /\ inventory[right_clicks[1].player_entity] = [item |-> "bucket", size |-> 1]
    /\ Len(item_uses) = 1
    /\ block_updates = << >>

\* the right click of the tick placed a block by a click on face f
PlacedOn(f) ==
    /\ RightResolved
    /\ right_clicks[1].block_hit # None
    /\ Unwrap(right_clicks[1].block_hit).face = f
    /\ Len(block_updates) = 1
    /\ block_updates[1].block_id # "air"

LateralFaces == Faces \ {"Top", "Bottom"}

\* C19: placing a block whose type is not rotatable and allows neither
\* ceiling nor floor placement by a click on a top face yields a command
\* without orientation state.
C19_TopFaceNoState ==
    PlacedOn("Top") =>
        LET placement == Placement(block_updates[1].block_id)
        IN (~placement.rotatable /\ ~placement.ceiling /\ ~placement.floor)
                => block_updates[1].block_state = None

\* such a placement, of a type with side transform and per-side orientation
C19_Witness ==
    /\ PlacedOn("Top")
    /\ Placement(block_updates[1].block_id) =
            [rotatable |-> FALSE, side_transform |-> TRUE, ceiling |-> FALSE,
             floor |-> FALSE, sides |-> TRUE]
    /\ block_updates[1].block_state = None

\* C20 as stated: placing a block type with per-side orientation by a click
\* on a lateral face yields the rotation mapped from the face, whatever the
\* other placement flags.
C20_AsStated ==
    \A f \in LateralFaces : PlacedOn(f) =>
        (Placement(block_updates[1].block_id).sides
            => block_updates[1].block_state = Some(ToRotation(f)))

\* C20, as the code has it: placing a block type with per-side orientation
\* by a click on a lateral face yields the rotation mapped from the face if
\* the type is rotatable or has a side transform, for every combination of
\* ceiling and floor, and no orientation state if it is neither.
C20_LateralFaceRotation ==
    \A f \in LateralFaces : PlacedOn(f) =>
        LET placement == Placement(block_updates[1].block_id)
        IN placement.sides =>
              block_updates[1].block_state =
                  IF placement.rotatable \/ placement.side_transform
                  THEN Some(ToRotation(f)) ELSE None

\* a type with side transform, per-side orientation, ceiling and floor
\* placement, not rotatable, placed by a click on a lateral face
C20_Witness ==
    \E f \in LateralFaces :
        /\ PlacedOn(f)
        /\ Placement(block_updates[1].block_id) =
              [rotatable |-> FALSE, side_transform |-> TRUE, ceiling |-> TRUE,
               floor |-> TRUE, sides |-> TRUE]
        /\ block_updates[1].block_state = Some(ToRotation(f))

----------------------------------------------------------------------------
(* Orientation toward the player                                           *)

Abs(n) == IF n < 0 THEN 0 - n ELSE n

\* the right click of the tick placed a rotatable block on a bottom face
\* with ceiling placement allowed or on a top face with floor placement
\* allowed
PlacedFacing ==
    /\ \/ PlacedOn("Bottom") /\ Placement(block_updates[1].block_id).ceiling
       \/ PlacedOn("Top") /\ Placement(block_updates[1].block_id).floor
    /\ Placement(block_updates[1].block_id).rotatable

\* C21: such a placement is oriented along the horizontal axis on which the
\* displacement between player and clicked block has the larger absolute
\* value, facing the player, and the result is one of the four rotations.
C21_FacingThePlayer ==
    PlacedFacing =>
        LET distance == right_clicks[1].distance
            block_state == block_updates[1].block_state
        IN /\ block_state # None
           /\ Abs(distance.x) > Abs(distance.z) =>
                 block_state = IF distance.x > 0 THEN Some(Rotation("Once"))
                               ELSE Some(Rotation("Thrice"))
           /\ Abs(distance.z) > Abs(distance.x) =>
                 block_state \notin {Some(Rotation("Once")), Some(Rotation("Thrice"))}

\* what the code does: the axis is the one of the larger signed component
C21_SignedMax ==
    PlacedFacing =>
        LET distance == right_clicks[1].distance
            block_state == block_updates[1].block_state
        IN block_state =
              IF distance.x >= distance.z
              THEN IF distance.x > 0 THEN Some(Rotation("Once"))
                   ELSE Some(Rotation("Thrice"))
              ELSE IF distance.z > 0 THEN None ELSE Some(Rotation("Twice"))

\* C25: the clicked face is mapped to a rotation only when the face is
\* lateral and the block type has per-side orientation; a click on the top
\* or bottom face never yields a face-mapped state, whatever the flags.
C25_FaceMappedOnlyLateral ==
    \A f \in Faces : PlacedOn(f) =>
        (block_updates[1].block_state = Some(ToRotation(f))
            => f \in LateralFaces /\ Placement(block_updates[1].block_id).sides)

\* the half of C25 that holds: no face-mapped state without per-side
\* orientation
C25_FaceMappedOnlySides ==
    \A f \in Faces : PlacedOn(f) =>
        (block_updates[1].block_state = Some(ToRotation(f))
            => Placement(block_updates[1].block_id).sides)

----------------------------------------------------------------------------
(* Players without their components                                        *)

\* C22: an event of a player that lacks required state is dropped, the other
\* events of the tick are processed, and no panic occurs.
C22_NoPanic == ~panicked

----------------------------------------------------------------------------
(* The breaking store and its proxies                                      *)

\* the model entities the stored entries refer to, the live entities with
\* the BreakingBlockMarker
ReferencedProxies == {being_broken[p].model_entity : p \in DOMAIN being_broken}
LiveProxies == {e \in DOMAIN models : models[e].marker}

\* C23: after each run of break_blocks the live breaking proxies are the
\* proxies the stored entries refer to, one for each entry and at its
\* position: an entry removed on completion or timeout has its proxy
\* despawned in the same tick, no entry refers to a despawned proxy.
C23_ProxiesMatchEntries ==
    /\ LiveProxies = ReferencedProxies
    /\ DOMAIN models = ReferencedProxies
    /\ Cardinality(ReferencedProxies) = Cardinality(DOMAIN being_broken)
    /\ \A p \in DOMAIN being_broken : models[being_broken[p].model_entity].position = p
    /\ Ran => \A p \in (DOMAIN before.being_broken) \ (DOMAIN being_broken) :
                before.being_broken[p].model_entity \notin DOMAIN models

\* an entry is removed on completion, its proxy is gone
C23_Witness ==
    \E p \in Positions :
        /\ HitOnEntry(p)
        /\ before.being_broken[p].progress = 800
        /\ before.being_broken[p].model_entity \in DOMAIN before.models
        /\ p \notin DOMAIN being_broken
        /\ models = << >>

\* C26: at the end of every run of break_blocks, also one without events,
\* every entry left in the store has progress < 1.0 and a last hit at most
\* 500 ms before the tick's time; entries at progress >= 1.0, the guard
\* entries of hardness-0 blocks included, do not survive the run.
C26_StoreAfterCleanup ==
    \A p \in DOMAIN being_broken :
        /\ being_broken[p].progress < ONE
        /\ 0 - being_broken[p].prev_hit <= TIMEOUT
        /\ models[being_broken[p].model_entity].marker

\* a run without events leaves an entry that was last hit 350 ms ago
C26_Witness ==
    /\ Ran
    /\ block_breaking_events = << >>
    /\ \E p \in DOMAIN being_broken :
          being_broken[p].prev_hit = 0 - 350 /\ being_broken[p].progress > 0

----------------------------------------------------------------------------
(* Several players on one position                                         *)

\* events of several players name p in this tick, the block has a hardness
\* above 0
ManyPlayers(p) ==
    /\ Ran
    /\ Cardinality({block_breaking_events[i].player_entity : i \in EventsAt(p)}) >= 2
    /\ Hardness(FirstEventAt(p).block_id) # None
    /\ Hardness(FirstEventAt(p).block_id)[1] > 0

\* C29: progress is kept per position, not per player: of the events of
\* several players for one position in one tick only the first updates the
\* entry, with the tool efficiency of its player, the others are dropped;
\* hits of different players in different ticks go to the same entry.
C29_PerPosition ==
    \A p \in Positions :
        /\ ManyPlayers(p) =>
              /\ UpdatesAt(p) <= 1
              /\ IF p \notin DOMAIN before.being_broken
                 THEN /\ p \in DOMAIN being_broken
                      /\ being_broken[p].progress = 0
                      /\ being_broken[p].prev_hit = 0
                 ELSE IF SincePrevHit(p) = 0
                 THEN p \in DOMAIN being_broken
                        /\ being_broken[p] = before.being_broken[p]
                 ELSE IF SincePrevHit(p) > 50 THEN OnlyTimestamp(p)
                 ELSE ProgressAdded(p)
        /\ (Ran /\ p \in DOMAIN being_broken /\ p \in DOMAIN before.being_broken) =>
              being_broken[p].model_entity = before.being_broken[p].model_entity

\* the entry holds the progress of a hit of bob; alice and bob hit it in one
\* tick, alice first: the progress of alice's tool is added to it
C29_Witness ==
    \E p \in Positions :
        /\ ManyPlayers(p)
        /\ HitOnEntry(p)
        /\ FirstEventAt(p).player_entity = "alice"
        /\ before.being_broken[p].progress = 200
        /\ p \in DOMAIN being_broken
        /\ being_broken[p].progress = 600

----------------------------------------------------------------------------
(* The grid changes by commands only                                       *)

\* the block the world holds at the position of every pending breaking event
\* is the block the event was made for
EventsReadWorld ==
    \A i \in DOMAIN block_breaking_events' :
        block_breaking_events'[i].block_id = world[block_breaking_events'[i].block_position]

----------------------------------------------------------------------------
(* The sink as a queue                                                     *)

\* C27: HandInteractions is a first-in first-out queue: whatever the order
\* of the push and read calls, a read yields the player entities pushed
\* since the read before, in the order of the pushes and as often as they
\* were pushed, and leaves the queue empty; until then the queue holds them.
C27_Fifo ==
    \A e \in QueueSinks :
        /\ hand_interactions[e] = read_log[e].pushed
        /\ read_log[e].yielded = read_log[e].expected

\* a read has yielded bob, alice in the order of their pushes, and alice was
\* pushed again since
C27_Witness ==
    \E e \in QueueSinks :
        /\ read_log[e].yielded = <<"bob", "alice">>
        /\ read_log[e].pushed = <<"alice">>
        /\ hand_interactions[e] = <<"alice">>

----------------------------------------------------------------------------
(* Health                                                                  *)

\* the hearts after the last call, computed without a word width
HeartsAfter(sent) ==
    LET h == health[sent.player_entity]
    IN IF sent.call = "take_damage"
       THEN Max({sent.old_hearts - sent.amount, 0})
       ELSE Min({sent.old_hearts + sent.amount, h.max})

\* the icons between two heart counts
Between(low, high) == { n \in 1..MaxHearts : low < n /\ n <= high }

\* C28: from a Health with hearts <= max, every sequence of take_damage and
\* heal calls keeps 0 <= hearts <= max: take_damage stops at 0, heal stops
\* at max and does not overflow, also for heal(u32::MAX).  take_damage hides
\* and heal shows exactly the icons between the old and the new count, so
\* the icons shown are always 1..hearts.
C28_HeartsBounded ==
    /\ \A pl \in Players :
          /\ 0 <= health[pl].hearts
          /\ health[pl].hearts <= health[pl].max
          /\ visible_hearts[pl] = 1..health[pl].hearts
    /\ interface_update.call # "none" =>
          LET sent == interface_update
              hearts == health[sent.player_entity].hearts
          IN /\ hearts = HeartsAfter(sent)
             /\ sent.call = "take_damage" =>
                   /\ sent.update.hidden = Between(hearts, sent.old_hearts)
                   /\ sent.update.visible = {}
             /\ sent.call = "heal" =>
                   /\ sent.update.visible = Between(sent.old_hearts, hearts)
                   /\ sent.update.hidden = {}

\* heal(u32::MAX) on a player with one heart of three: two icons are shown
C28_Witness ==
    /\ interface_update.call = "heal"
    /\ interface_update.amount = U32_MAX
    /\ interface_update.old_hearts = 1
    /\ health[interface_update.player_entity] = [hearts |-> MaxHearts, max |-> MaxHearts]
    /\ interface_update.update.visible = 2..MaxHearts

----------------------------------------------------------------------------
(* Objects without a sink                                                  *)

\* the item, which has no sink, is accepted and nearer than every other
\* accepted object
ItemNearest(click) ==
    /\ "item" \in AcceptedRight(click)
    /\ \A e \in AcceptedRight(click) \ {"item"} :
          Unwrap(click.model_distance["item"]) < Unwrap(click.model_distance[e])

\* C30: a right click whose nearest target is an object without interaction
\* sink is dropped: no sink gets the player, no item use is registered, the
\* equipped stack stays as it is and no block-mutation command is issued,
\* also when the ray meets a block behind the object.
C30_SinklessObjectDropsClick ==
    [][ RightStep =>
          LET click == right_clicks'[1]
          IN ItemNearest(click) =>
                /\ hand_interactions' = hand_interactions
                /\ item_uses' = item_uses
                /\ inventory' = inventory
                /\ block_updates' = block_updates ]_vars

\* a player that holds a usable item right-clicks the item lying before a
\* block in reach: nothing is used, no sink has the player
C30_Witness ==
    /\ RightResolved
    /\ ItemNearest(right_clicks[1])
    /\ right_clicks[1].block_hit # None
    /\ Unwrap(right_clicks[1].model_distance["item"])
            < Unwrap(right_clicks[1].block_hit).distance
    /\ Unwrap(right_clicks[1].block_hit).distance <= RAY_DISTANCE
    /\ Usable(inventory[right_clicks[1].player_entity].item)
    /\ targets[1].kind = "object"
    /\ item_uses = << >>
    /\ block_updates = << >>
    /\ \A e \in DOMAIN hand_interactions : hand_interactions[e] = << >>

----------------------------------------------------------------------------
(* Two placements at one position                                          *)

\* handle_right_clicks reads two clicks in this step
PairStep ==
    /\ phase = "clicks"
    /\ phase' = "left"
    /\ Len(right_clicks') = 2

\* the units the clicks before the i-th take from the stack of its player,
\* if all of them place
TakenBefore(cs, i) ==
    Cardinality({ j \in 1..(i - 1) : cs[j].player_entity = cs[i].player_entity })

\* the i-th click reaches the placement with a block item in the hand: no
\* object is met, the block that is met has no sink, the stack still holds a
\* unit of a block item, and a destination is found
Places(cs, i) ==
    /\ BlockIsTarget(cs[i])
    /\ ~BlockHasSink(cs[i])
    /\ inventory[cs[i].player_entity].size > TakenBefore(cs, i)
    /\ ItemBlock(inventory[cs[i].player_entity].item) # None
    /\ Destination(cs[i]) # None

\* the command of a placement
PlacedBy(click) ==
    [position |-> Unwrap(Destination(click)),
     block_id |-> Unwrap(ItemBlock(inventory[click.player_entity].item))]

\* a stack less n units
Less(stack, n) == IF stack.size <= n THEN EmptyStack ELSE [stack EXCEPT !.size = @ - n]

\* C31: two right-click placements of one tick with the same destination,
\* of one player or of two, both succeed against the grid of before the
\* tick: each takes one unit from the stack of its player and each issues a
\* block-mutation command for the position, in the order of the events.
C31_BothPlaced ==
    [][ PairStep =>
          LET cs == right_clicks'
          IN (/\ Places(cs, 1)
              /\ Places(cs, 2)
              /\ Destination(cs[1]) = Destination(cs[2])) =>
                /\ Len(block_updates') = Len(block_updates) + 2
                /\ SubSeq(block_updates', 1, Len(block_updates)) = block_updates
                /\ \A i \in 1..2 :
                      LET update == block_updates'[Len(block_updates) + i]
                      IN /\ update.position = PlacedBy(cs[i]).position
                         /\ update.block_id = PlacedBy(cs[i]).block_id
                /\ \A pl \in Players :
                      inventory'[pl] =
                          Less(inventory[pl],
                               Cardinality({ i \in 1..2 : cs[i].player_entity = pl })) ]_vars

\* alice clicks the fire at b, bob the top face of the bedrock below it: two
\* commands for b, the flower of alice first, and both stacks are empty
C31_Witness ==
    /\ phase = "left"
    /\ Len(right_clicks) = 2
    /\ right_clicks[1].player_entity = "alice"
    /\ right_clicks[2].player_entity = "bob"
    /\ right_clicks[1].block_hit # None
    /\ right_clicks[2].block_hit # None
    /\ Unwrap(right_clicks[1].block_hit).position = "b"
    /\ Unwrap(right_clicks[2].block_hit).position = "a"
    /\ world = [a |-> "bedrock", b |-> "fire"]
    /\ Len(block_updates) = 2
    /\ block_updates[1].position = "b"
    /\ block_updates[1].block_id = "flower"
    /\ block_updates[2].position = "b"
    /\ block_updates[2].block_id = OrientedBlocks[1]
    /\ inventory["alice"] = EmptyStack
    /\ inventory["bob"] = EmptyStack

----------------------------------------------------------------------------
(* The candidates of a left click                                          *)

\* the objects the ray meets that are no candidates: no attached position,
\* or the block of the attached position has no hitbox
NoCandidates(click) ==
    { e \in DOMAIN click.model_distance : click.model_distance[e] # None }
        \ ObjectsHitLeft(click)

\* C32: in handle_left_clicks only objects with an attached block position
\* whose block has a hitbox are candidates: any other object is never
\* selected and never hides the block behind it, however near it is, and the
\* event for a selected object has the attached position and the block id
\* the world holds there.
C32_OnlyTaggedWithHitbox ==
    LeftResolved =>
        LET click == clicks[1]
            target == targets[Len(targets)]
        IN /\ target.kind = "object" =>
                \E e \in ObjectsHitLeft(click) :
                    /\ target.distance = Unwrap(click.model_distance[e])
                    /\ block_breaking_events =
                          << [player_entity  |-> click.player_entity,
                              block_position |-> Unwrap(BlockPositionOf(e)),
                              block_id       |-> world[Unwrap(BlockPositionOf(e))]] >>
           /\ (ObjectsHitLeft(click) = {} /\ click.block_hit # None) =>
                /\ target.kind = "block"
                /\ EventTargetsBlock(click)
           /\ (ObjectsHitLeft(click) = {} /\ click.block_hit = None) =>
                block_breaking_events = << >>

\* the ray of a left click meets the model of a chest, which has no hitbox,
\* and the boat, which has no position, before a block: the event is for
\* the block
C32_Witness ==
    /\ LeftResolved
    /\ clicks[1].block_hit # None
    /\ ObjectsHitLeft(clicks[1]) = {}
    /\ "boat" \in NoCandidates(clicks[1])
    /\ \E e \in NoCandidates(clicks[1]) :
          /\ BlockPositionOf(e) # None
          /\ world[Unwrap(BlockPositionOf(e))] = "chest"
          /\ Unwrap(clicks[1].model_distance[e]) < Unwrap(clicks[1].block_hit).distance
    /\ Unwrap(clicks[1].model_distance["boat"]) < Unwrap(clicks[1].block_hit).distance
    /\ EventTargetsBlock(clicks[1])

====
